---- MODULE Spec2Model ----
(***************************************************************************)
(* The bootstrap builder of the Steam launcher packaging                   *)
(* (buildutils/add-client-files.py, buildutils/buildutils.py).             *)
(*                                                                         *)
(* Python strings are sequences of one-character strings, so that split,   *)
(* startswith, fnmatch, strip and string comparison are computed as the    *)
(* code computes them.  Every component of the program has its own         *)
(* variables, initial condition and next-state relation; a component that  *)
(* is not running sits at its Idle value and none of its actions is        *)
(* enabled.                                                                *)
(***************************************************************************)
EXTENDS Integers, Sequences, FiniteSets, TLC

(***************************************************************************)
(* Strings                                                                 *)
(***************************************************************************)

\* str.startswith(prefix)
startswith(s, prefix) ==
  /\ Len(s) >= Len(prefix)
  /\ SubSeq(s, 1, Len(prefix)) = prefix

\* the elements of a tuple, as a set (x in tuple)
Elems(t) == {t[i] : i \in DOMAIN t}

\* str.split(sep) for a one-character separator: every occurrence of sep
\* ends a segment, and empty segments are kept
RECURSIVE split_acc(_, _, _, _)
split_acc(s, sep, cur, out) ==
  IF s = <<>> THEN Append(out, cur)
  ELSE IF Head(s) = sep
       THEN split_acc(Tail(s), sep, <<>>, Append(out, cur))
       ELSE split_acc(Tail(s), sep, Append(cur, Head(s)), out)

split(s, sep) == split_acc(s, sep, <<>>, <<>>)

\* fnmatch.fnmatch(name, pat) on POSIX (normcase is the identity there):
\* '*' matches any run of characters, '?' any one character, anything else
\* itself; the whole name must match
RECURSIVE fnmatch(_, _)
fnmatch(name, pat) ==
  IF pat = <<>> THEN name = <<>>
  ELSE IF Head(pat) = "*"
       THEN \/ fnmatch(name, Tail(pat))
            \/ name # <<>> /\ fnmatch(Tail(name), pat)
  ELSE IF Head(pat) = "?"
       THEN name # <<>> /\ fnmatch(Tail(name), Tail(pat))
  ELSE name # <<>> /\ Head(name) = Head(pat) /\ fnmatch(Tail(name), Tail(pat))

\* the printable ASCII characters, from ' ' (32) to '~' (126), in code order
\* (the double quote, the backslash and the backtick are held by a name: no
\* string of the model contains them)
PRINTABLE_ASCII ==
  <<
    " ", "!", "DQUOTE", "#", "$", "%", "&", "'", "(", ")", "*", "+", ",", "-", ".", "/",
    "0", "1", "2", "3", "4", "5", "6", "7", "8", "9", ":", ";", "<", "=", ">", "?",
    "@", "A", "B", "C", "D", "E", "F", "G", "H", "I", "J", "K", "L", "M", "N", "O",
    "P", "Q", "R", "S", "T", "U", "V", "W", "X", "Y", "Z", "[", "BACKSLASH", "]", "^", "_",
    "BACKTICK", "a", "b", "c", "d", "e", "f", "g", "h", "i", "j", "k", "l", "m", "n", "o",
    "p", "q", "r", "s", "t", "u", "v", "w", "x", "y", "z", "{", "|", "}", "~"
  >>

\* ord(c)
ord(c) == 31 + CHOOSE i \in DOMAIN PRINTABLE_ASCII : PRINTABLE_ASCII[i] = c

\* a < b on strings: the first differing character decides by its code
\* point, and a proper prefix comes first
RECURSIVE str_lt(_, _)
str_lt(a, b) ==
  IF b = <<>> THEN FALSE
  ELSE IF a = <<>> THEN TRUE
  ELSE IF Head(a) = Head(b) THEN str_lt(Tail(a), Tail(b))
  ELSE ord(Head(a)) < ord(Head(b))

\* sorted(list) for a list of strings: ascending, every element kept
RECURSIVE sorted_insert(_, _)
sorted_insert(out, x) ==
  IF out = <<>> THEN <<x>>
  ELSE IF str_lt(x, Head(out)) THEN <<x>> \o out
  ELSE <<Head(out)>> \o sorted_insert(Tail(out), x)

RECURSIVE sorted(_)
sorted(list) ==
  IF list = <<>> THEN <<>>
  ELSE sorted_insert(sorted(SubSeq(list, 1, Len(list) - 1)), list[Len(list)])

\* str.endswith(suffix)
endswith(s, suffix) ==
  /\ Len(s) >= Len(suffix)
  /\ SubSeq(s, Len(s) - Len(suffix) + 1, Len(s)) = suffix

\* int(s) for a string of decimal digits, with or without a sign
RECURSIVE int_digits(_)
int_digits(s) ==
  IF s = <<>> THEN 0
  ELSE 10 * int_digits(SubSeq(s, 1, Len(s) - 1)) + (ord(s[Len(s)]) - ord("0"))

int(s) ==
  IF s # <<>> /\ Head(s) = "-" THEN 0 - int_digits(Tail(s))
  ELSE IF s # <<>> /\ Head(s) = "+" THEN int_digits(Tail(s))
  ELSE int_digits(s)

\* list[1:] and list[:-1]
AllButFirst(l) == IF l = <<>> THEN <<>> ELSE Tail(l)
AllButLast(l) == IF l = <<>> THEN <<>> ELSE SubSeq(l, 1, Len(l) - 1)

(***************************************************************************)
(* The allow-list tables of add-client-files.py                            *)
(***************************************************************************)

BOOTSTRAP_RUNTIME_AMD64_BIN ==
  <<
    <<"s", "t", "e", "a", "m", "-", "r", "u", "n", "t", "i", "m", "e", "-", "c", "h", "e", "c", "k", "-", "r", "e", "q", "u", "i", "r", "e", "m", "e", "n", "t", "s">>,    \* 'steam-runtime-check-requirements'
    <<"s", "t", "e", "a", "m", "-", "r", "u", "n", "t", "i", "m", "e", "-", "i", "d", "e", "n", "t", "i", "f", "y", "-", "l", "i", "b", "r", "a", "r", "y", "-", "a", "b", "i">>,    \* 'steam-runtime-identify-library-abi'
    <<"s", "t", "e", "a", "m", "-", "r", "u", "n", "t", "i", "m", "e", "-", "l", "a", "u", "n", "c", "h", "-", "c", "l", "i", "e", "n", "t">>,    \* 'steam-runtime-launch-client'
    <<"s", "r", "t", "-", "l", "o", "g", "g", "e", "r">>    \* 'srt-logger'
  >>

BOOTSTRAP_RUNTIME_AMD64_SONAMES ==
  <<
    <<"l", "i", "b", "c", "a", "p", ".", "s", "o", ".", "2">>,    \* 'libcap.so.2'
    <<"l", "i", "b", "e", "l", "f", ".", "s", "o", ".", "1">>,    \* 'libelf.so.1'
    <<"l", "i", "b", "f", "f", "i", ".", "s", "o", ".", "6">>,    \* 'libffi.so.6'
    <<"l", "i", "b", "g", "i", "o", "-", "2", ".", "0", ".", "s", "o", ".", "0">>,    \* 'libgio-2.0.so.0'
    <<"l", "i", "b", "g", "l", "i", "b", "-", "2", ".", "0", ".", "s", "o", ".", "0">>,    \* 'libglib-2.0.so.0'
    <<"l", "i", "b", "g", "m", "o", "d", "u", "l", "e", "-", "2", ".", "0", ".", "s", "o", ".", "0">>,    \* 'libgmodule-2.0.so.0'
    <<"l", "i", "b", "g", "o", "b", "j", "e", "c", "t", "-", "2", ".", "0", ".", "s", "o", ".", "0">>,    \* 'libgobject-2.0.so.0'
    <<"l", "i", "b", "p", "c", "r", "e", ".", "s", "o", ".", "3">>,    \* 'libpcre.so.3'
    <<"l", "i", "b", "s", "e", "l", "i", "n", "u", "x", ".", "s", "o", ".", "1">>,    \* 'libselinux.so.1'
    <<"l", "i", "b", "z", ".", "s", "o", ".", "1">>    \* 'libz.so.1'
  >>

BOOTSTRAP_RUNTIME_AMD64_PATTERNS ==
  <<
    <<"l", "i", "b", "e", "l", "f", "-", "*", ".", "s", "o">>    \* 'libelf-*.so'
  >>

BOOTSTRAP_RUNTIME_I386_SONAMES ==
  <<
    <<"l", "i", "b", "X", "1", "1", "-", "x", "c", "b", ".", "s", "o", ".", "1">>,    \* 'libX11-xcb.so.1'
    <<"l", "i", "b", "X", "1", "1", ".", "s", "o", ".", "6">>,    \* 'libX11.so.6'
    <<"l", "i", "b", "X", "a", "u", ".", "s", "o", ".", "6">>,    \* 'libXau.so.6'
    <<"l", "i", "b", "X", "d", "a", "m", "a", "g", "e", ".", "s", "o", ".", "1">>,    \* 'libXdamage.so.1'
    <<"l", "i", "b", "X", "d", "m", "c", "p", ".", "s", "o", ".", "6">>,    \* 'libXdmcp.so.6'
    <<"l", "i", "b", "X", "e", "x", "t", ".", "s", "o", ".", "6">>,    \* 'libXext.so.6'
    <<"l", "i", "b", "X", "f", "i", "x", "e", "s", ".", "s", "o", ".", "3">>,    \* 'libXfixes.so.3'
    <<"l", "i", "b", "X", "x", "f", "8", "6", "v", "m", ".", "s", "o", ".", "1">>,    \* 'libXxf86vm.so.1'
    <<"l", "i", "b", "c", "o", "m", "_", "e", "r", "r", ".", "s", "o", ".", "2">>,    \* 'libcom_err.so.2'
    <<"l", "i", "b", "c", "u", "r", "l", "-", "g", "n", "u", "t", "l", "s", ".", "s", "o", ".", "4">>,    \* 'libcurl-gnutls.so.4'
    <<"l", "i", "b", "e", "x", "p", "a", "t", ".", "s", "o", ".", "1">>,    \* 'libexpat.so.1'
    <<"l", "i", "b", "f", "f", "i", ".", "s", "o", ".", "6">>,    \* 'libffi.so.6'
    <<"l", "i", "b", "g", "c", "c", "_", "s", ".", "s", "o", ".", "1">>,    \* 'libgcc_s.so.1'
    <<"l", "i", "b", "g", "c", "r", "y", "p", "t", ".", "s", "o", ".", "1", "1">>,    \* 'libgcrypt.so.11'
    <<"l", "i", "b", "g", "m", "p", ".", "s", "o", ".", "1", "0">>,    \* 'libgmp.so.10'
    <<"l", "i", "b", "g", "n", "u", "t", "l", "s", ".", "s", "o", ".", "3", "0">>,    \* 'libgnutls.so.30'
    <<"l", "i", "b", "g", "s", "s", "a", "p", "i", "_", "k", "r", "b", "5", ".", "s", "o", ".", "2">>,    \* 'libgssapi_krb5.so.2'
    <<"l", "i", "b", "h", "o", "g", "w", "e", "e", "d", ".", "s", "o", ".", "4">>,    \* 'libhogweed.so.4'
    <<"l", "i", "b", "i", "d", "n", ".", "s", "o", ".", "1", "1">>,    \* 'libidn.so.11'
    <<"l", "i", "b", "k", "5", "c", "r", "y", "p", "t", "o", ".", "s", "o", ".", "3">>,    \* 'libk5crypto.so.3'
    <<"l", "i", "b", "k", "e", "y", "u", "t", "i", "l", "s", ".", "s", "o", ".", "1">>,    \* 'libkeyutils.so.1'
    <<"l", "i", "b", "k", "r", "b", "5", ".", "s", "o", ".", "3">>,    \* 'libkrb5.so.3'
    <<"l", "i", "b", "k", "r", "b", "5", "s", "u", "p", "p", "o", "r", "t", ".", "s", "o", ".", "0">>,    \* 'libkrb5support.so.0'
    <<"l", "i", "b", "n", "e", "t", "t", "l", "e", ".", "s", "o", ".", "6">>,    \* 'libnettle.so.6'
    <<"l", "i", "b", "p", "1", "1", "-", "k", "i", "t", ".", "s", "o", ".", "0">>,    \* 'libp11-kit.so.0'
    <<"l", "i", "b", "r", "t", "m", "p", ".", "s", "o", ".", "0">>,    \* 'librtmp.so.0'
    <<"l", "i", "b", "s", "t", "d", "c", "+", "+", ".", "s", "o", ".", "6">>,    \* 'libstdc++.so.6'
    <<"l", "i", "b", "t", "a", "s", "n", "1", ".", "s", "o", ".", "6">>,    \* 'libtasn1.so.6'
    <<"l", "i", "b", "t", "i", "n", "f", "o", ".", "s", "o", ".", "5">>,    \* 'libtinfo.so.5'
    <<"l", "i", "b", "x", "c", "b", "-", "d", "r", "i", "2", ".", "s", "o", ".", "0">>,    \* 'libxcb-dri2.so.0'
    <<"l", "i", "b", "x", "c", "b", "-", "d", "r", "i", "3", ".", "s", "o", ".", "0">>,    \* 'libxcb-dri3.so.0'
    <<"l", "i", "b", "x", "c", "b", "-", "g", "l", "x", ".", "s", "o", ".", "0">>,    \* 'libxcb-glx.so.0'
    <<"l", "i", "b", "x", "c", "b", "-", "p", "r", "e", "s", "e", "n", "t", ".", "s", "o", ".", "0">>,    \* 'libxcb-present.so.0'
    <<"l", "i", "b", "x", "c", "b", "-", "s", "y", "n", "c", ".", "s", "o", ".", "1">>,    \* 'libxcb-sync.so.1'
    <<"l", "i", "b", "x", "c", "b", ".", "s", "o", ".", "1">>,    \* 'libxcb.so.1'
    <<"l", "i", "b", "z", ".", "s", "o", ".", "1">>    \* 'libz.so.1'
  >>

BOOTSTRAP_RUNTIME_LIBEXEC_SRT ==
  <<
    <<"s", "r", "t", "-", "b", "w", "r", "a", "p">>,    \* 'srt-bwrap'
    <<"s", "r", "t", "-", "l", "o", "g", "g", "e", "r">>,    \* 'srt-logger'
    <<"l", "o", "g", "g", "e", "r", "-", "0", ".", "b", "a", "s", "h">>    \* 'logger-0.bash'
  >>

\* the names want_file_from_runtime keeps whatever lies beneath them
METADATA_NAMES ==
  <<
    <<"C", "O", "P", "Y", "I", "N", "G">>,    \* 'COPYING'
    <<"R", "E", "A", "D", "M", "E", ".", "t", "x", "t">>,    \* 'README.txt'
    <<"b", "u", "i", "l", "t", "-", "u", "s", "i", "n", "g", ".", "t", "x", "t">>,    \* 'built-using.txt'
    <<"c", "o", "m", "m", "o", "n", "-", "l", "i", "c", "e", "n", "s", "e", "s">>,    \* 'common-licenses'
    <<"m", "a", "n", "i", "f", "e", "s", "t", ".", "d", "e", "b", "8", "2", "2", ".", "g", "z">>,    \* 'manifest.deb822.gz'
    <<"m", "a", "n", "i", "f", "e", "s", "t", ".", "t", "x", "t">>,    \* 'manifest.txt'
    <<"r", "u", "n", ".", "s", "h">>,    \* 'run.sh'
    <<"s", "c", "r", "i", "p", "t", "s">>,    \* 'scripts'
    <<"s", "e", "t", "u", "p", ".", "s", "h">>,    \* 'setup.sh'
    <<"v", "e", "r", "s", "i", "o", "n", ".", "t", "x", "t">>    \* 'version.txt'
  >>

\* the directory names the code compares path segments with
STEAM_RUNTIME == <<"s", "t", "e", "a", "m", "-", "r", "u", "n", "t", "i", "m", "e">>    \* 'steam-runtime'
DOTDOT == <<".", ".">>    \* '..'
USR == <<"u", "s", "r">>    \* 'usr'
LIB == <<"l", "i", "b">>    \* 'lib'
I386_LINUX_GNU == <<"i", "3", "8", "6", "-", "l", "i", "n", "u", "x", "-", "g", "n", "u">>    \* 'i386-linux-gnu'
X86_64_LINUX_GNU == <<"x", "8", "6", "_", "6", "4", "-", "l", "i", "n", "u", "x", "-", "g", "n", "u">>    \* 'x86_64-linux-gnu'
STEAM_RUNTIME_TOOLS_0 == <<"s", "t", "e", "a", "m", "-", "r", "u", "n", "t", "i", "m", "e", "-", "t", "o", "o", "l", "s", "-", "0">>    \* 'steam-runtime-tools-0'
AMD64 == <<"a", "m", "d", "6", "4">>    \* 'amd64'
BIN == <<"b", "i", "n">>    \* 'bin'
LIBEXEC == <<"l", "i", "b", "e", "x", "e", "c">>    \* 'libexec'
SHARE == <<"s", "h", "a", "r", "e">>    \* 'share'

SUB == <<"s", "u", "b">>    \* 'sub', a directory name the code does not know

(***************************************************************************)
(* Main.want_file_from_runtime                                             *)
(***************************************************************************)

\* soname_rule without the '.' after the soname
soname_rule_bare_prefix(name, soname) ==
  \/ name = soname
  \/ startswith(name, soname)

\* path_parts[-1] == soname or path_parts[-1].startswith(soname + '.')
soname_rule(name, soname) ==
  \/ name = soname
  \/ startswith(name, soname \o <<".">>)

\* the loops over a soname list and over the amd64 patterns
any_soname(name, sonames) ==
  \E i \in DOMAIN sonames : soname_rule(name, sonames[i])

\* the loop over the patterns with a pattern that matches every name
any_pattern_matching_all(name, patterns) ==
  \E i \in DOMAIN patterns : fnmatch(name, <<"*">>)

any_pattern(name, patterns) ==
  \E i \in DOMAIN patterns : fnmatch(name, patterns[i])

\* The result is "True" or "False", or "IndexError" where path_parts[0]
\* is read from an empty list.
want_file_from_runtime(path_parts) ==
  IF path_parts = <<>> THEN "IndexError"
  ELSE IF path_parts[1] \in Elems(METADATA_NAMES) THEN "True"
  ELSE
    LET parts == IF path_parts[1] = USR THEN Tail(path_parts) ELSE path_parts
        dir == AllButLast(parts)
        name == parts[Len(parts)]
    IN
      IF dir \in { <<LIB, I386_LINUX_GNU>>,
                   <<LIB, I386_LINUX_GNU, STEAM_RUNTIME_TOOLS_0>> }
      THEN IF any_soname(name, BOOTSTRAP_RUNTIME_I386_SONAMES)
           THEN "True" ELSE "False"
      ELSE IF dir \in { <<LIB, X86_64_LINUX_GNU>>,
                        <<LIB, X86_64_LINUX_GNU, STEAM_RUNTIME_TOOLS_0>> }
      THEN IF \/ any_pattern(name, BOOTSTRAP_RUNTIME_AMD64_PATTERNS)
              \/ any_soname(name, BOOTSTRAP_RUNTIME_AMD64_SONAMES)
           THEN "True" ELSE "False"
      ELSE IF dir = <<AMD64, USR, BIN>>
      THEN IF name \in Elems(BOOTSTRAP_RUNTIME_AMD64_BIN)
           THEN "True" ELSE "False"
      ELSE IF dir = <<LIBEXEC, STEAM_RUNTIME_TOOLS_0>>
      THEN IF name \in Elems(BOOTSTRAP_RUNTIME_LIBEXEC_SRT)
           THEN "True" ELSE "False"
      ELSE IF parts \in { <<AMD64, LIB>>,
                          <<AMD64, USR, LIB>>,
                          <<AMD64, USR, LIBEXEC>>,
                          <<AMD64, USR, SHARE>> }
      THEN "True"
      ELSE "False"

\* None, which is no string
None == <<"None">>

(***************************************************************************)
(* State.  One group of variables per component.                           *)
(***************************************************************************)
VARIABLES
  \* one call of want_file_from_runtime
  path_parts,          \* the argument of the call
  want_result,         \* "none" until the call has returned or raised
  \* the extraction loop of Main.build_bootstrap
  extraction_filter,   \* the interpreter's default tarfile extraction filter
  stream,              \* the members the tar reader has yielded so far
  extracted,           \* positions in stream of the members extracted
  fs,                  \* what lies beneath the destination root, by lexical path
  touched,             \* every path created or written, and where it resolves
  ex_status,           \* "running", "done", or the exception that ended the loop
  \* SteamClient.download_client and SteamClient.download_runtime
  fetch_fn,            \* which of the two methods was called
  strict,              \* its strict argument
  major_version,       \* download_runtime's major_version, as str() gives it
  manifest,            \* manifest_content['ubuntu12']: name -> value
  items,               \* the names of the manifest as sorted() listed them
  fetch_pos,           \* how many items of the sorted manifest the loop has passed
  downloads,           \* the assets downloaded so far: name and content received
  warnings,            \* the warnings logged, in order
  fetch_status,        \* "running", "verified", or the exception raised
  tempdir,             \* the method's TemporaryDirectory: whether it exists, and its files
  datadir,             \* the files of datadir: name and content
  datadir_before,      \* datadir as it was when the method was called
  fetch_result,        \* "pending", what the method returned, or the exception raised after the loop
  \* the repackaging step of Main.build_bootstrap, run twice
  environ,             \* os.environ, as far as Main.__init__ reads it
  reference_timestamp, \* Main.reference_timestamp
  staging,             \* the tree beneath tmpdir/bootstrap
  run,                 \* 1 or 2: which run of the step is under way
  disk_owner,          \* the uid that owns the staging tree in this run
  walk_stack,          \* the directories os.walk has yet to list
  members,             \* the list the walk collects
  to_add,              \* sorted(members), from the entry the loop is at
  archives,            \* the entries written to the output archive, per run
  statted,             \* name and on-disk mtime of every file added, per run
  rp_status,           \* "walking", "adding" or "done"
  \* PinnedRuntimeVersion and RuntimeArchive.pin_version
  pin_caller,          \* "constructor" or "pin_version"
  pin_input,           \* the string constructed from, or VERSION.txt's bytes
  pin_owner,           \* the RuntimeArchive that is asked
  pins,                \* the PinnedRuntimeVersion objects that exist
  pin_status,          \* "ready", "pinned", or the exception raised
  \* the comparison operators of PinnedRuntimeVersion
  cmp_left,            \* the PinnedRuntimeVersion on the left of the operator
  cmp_right,           \* the object on the right of the operator
  cmp_op,              \* "==", "<", "<=", ">" or ">="
  cmp_result,          \* "pending", "True", "False", or the exception raised
  \* SteamClient.extract_scout
  scout_tarball,       \* the members of steam-runtime.tar.xz, in order
  extract_manifest,    \* the argument of extract_scout
  scout_pos,           \* the members read so far
  destdir,             \* the files beneath destdir/steam-runtime: name to content
  have_scout_manifest, \* SteamClient.have_scout_manifest
  scout_version_marker, \* SteamClient.scout_version_marker
  scout_version,       \* SteamClient.scout_version
  scout_warnings,      \* the warnings logged
  scout_status,        \* "reading", "returned", or the exception raised
  \* Main.run and main()
  args,                \* the parsed command line, as far as run depends on it
  client_dir,          \* Main.client_dir
  remote,              \* what the servers hold for this run
  runtime_tarball,     \* client/ubuntu12_32/steam-runtime.tar.xz: "absent", "empty" or "valid"
  calls,               \* the methods Main.run has called, in order
  built_from,          \* the client_dir given to build_bootstrap
  dest_archive,        \* bootstraplinux_ubuntu12_32.tar.xz in destination: "old", "partial" or "new"
  dest_metadata,       \* client-versions.json in destination: "old", "partial" or "new"
  run_pc,              \* the statement Main.run is at
  raised,              \* the exception that ended the run, or "none"
  exit_status,         \* how main() ended: "none", "success", "usage error" or "traceback"
  version_txt,         \* the bytes the server sends for VERSION.txt
  resolved_runtime,    \* Main.resolved_runtime
  tarball_ops,         \* what ensure_scout_tarball did to the runtime tarball, in order
  metadata,            \* the runtime_version written to client-versions.json, if any
  stages,              \* the stages of the run started so far, and how each ended
  tmpdir,              \* the TemporaryDirectory of Main.run: whether it exists, and its entries
  \* the network fetch operations
  net_op,              \* the fetch operation called
  server,              \* how the request goes: "ok", "refused" or "reset"
  must_exist,          \* the argument of RuntimeArchive.fetch
  use_rsync,           \* RuntimeArchive.fetch: ssh is configured and rsync is true
  log_level,           \* "None", "NOTSET" or "ERROR"
  requests,            \* the requests issued
  logged,              \* the messages logged about a failed request
  net_file,            \* the output file: "absent", "partial" or "complete"
  net_result,          \* "pending", "returned", or the exception raised
  \* SteamClient.load_manifest
  version_field,       \* manifest_content['ubuntu12']['version']
  client_version,      \* SteamClient.version
  client_datetime,     \* SteamClient.datetime
  manifest_status,     \* "loading", "returned", or the exception raised
  \* Main.install_search, as build_bootstrap calls it
  client_overlay,      \* Main.client_overlay: '' or a directory
  install_pos,         \* the calls of install_search made by build_bootstrap
  last_seen,           \* where the file of the last call exists: overlay, client, cwd
  bootstrap,           \* the files installed into the bootstrap tree: path to source and mode
  install_status       \* "installing", "installed", or the exception raised

wantVars == <<path_parts, want_result>>
extractVars == <<extraction_filter, stream, extracted, fs, touched, ex_status>>
fetchVars == <<fetch_fn, strict, major_version, manifest, items, fetch_pos,
               downloads, warnings, fetch_status, tempdir, datadir,
               datadir_before, fetch_result>>
repackVars == <<environ, reference_timestamp, staging, run, disk_owner,
                walk_stack, members, to_add, archives, statted, rp_status>>
pinVars == <<pin_caller, pin_input, pin_owner, pins, pin_status>>
compareVars == <<cmp_left, cmp_right, cmp_op, cmp_result>>
scoutVars == <<scout_tarball, extract_manifest, scout_pos, destdir, have_scout_manifest, scout_version_marker, scout_version, scout_warnings, scout_status>>
runVars == <<args, client_dir, remote, runtime_tarball, calls, built_from,
             dest_archive, dest_metadata, run_pc, raised, exit_status,
             version_txt, resolved_runtime, tarball_ops, metadata, stages,
             tmpdir>>
netVars == <<net_op, server, must_exist, use_rsync, log_level, requests, logged, net_file, net_result>>
manifestVars == <<version_field, client_version, client_datetime, manifest_status>>
installVars == <<client_overlay, install_pos, last_seen, bootstrap, install_status>>
vars == <<wantVars, extractVars, fetchVars, repackVars, pinVars, compareVars, scoutVars, runVars, netVars, manifestVars, installVars>>

\* the frame of each component: the variables of all the others
notWant == <<extractVars, fetchVars, repackVars, pinVars, compareVars, scoutVars, runVars, netVars, manifestVars, installVars>>
notExtract == <<wantVars, fetchVars, repackVars, pinVars, compareVars, scoutVars, runVars, netVars, manifestVars, installVars>>
notFetch == <<wantVars, extractVars, repackVars, pinVars, compareVars, scoutVars, runVars, netVars, manifestVars, installVars>>
notRepack == <<wantVars, extractVars, fetchVars, pinVars, compareVars, scoutVars, runVars, netVars, manifestVars, installVars>>
notPin == <<wantVars, extractVars, fetchVars, repackVars, compareVars, scoutVars, runVars, netVars, manifestVars, installVars>>
notCompare == <<wantVars, extractVars, fetchVars, repackVars, pinVars, scoutVars, runVars, netVars, manifestVars, installVars>>
notScout == <<wantVars, extractVars, fetchVars, repackVars, pinVars, compareVars, runVars, netVars, manifestVars, installVars>>
notRun == <<wantVars, extractVars, fetchVars, repackVars, pinVars, compareVars, scoutVars, netVars, manifestVars, installVars>>
notNet == <<wantVars, extractVars, fetchVars, repackVars, pinVars, compareVars, scoutVars, runVars, manifestVars, installVars>>
notManifest == <<wantVars, extractVars, fetchVars, repackVars, pinVars, compareVars, scoutVars, runVars, netVars, installVars>>
notInstall == <<wantVars, extractVars, fetchVars, repackVars, pinVars, compareVars, scoutVars, runVars, netVars, manifestVars>>

WantIdle ==
  /\ path_parts = <<>>
  /\ want_result = "idle"

ExtractIdle ==
  /\ extraction_filter = "idle"
  /\ stream = <<>>
  /\ extracted = {}
  /\ fs = {}
  /\ touched = {}
  /\ ex_status = "idle"

FetchIdle ==
  /\ fetch_fn = "idle"
  /\ strict = FALSE
  /\ major_version = <<>>
  /\ manifest = <<>>
  /\ items = <<>>
  /\ fetch_pos = 0
  /\ downloads = <<>>
  /\ warnings = <<>>
  /\ fetch_status = "idle"
  /\ tempdir = [exists |-> FALSE, files |-> {}]
  /\ datadir = {}
  /\ datadir_before = {}
  /\ fetch_result = "pending"

RepackIdle ==
  /\ environ = <<>>
  /\ reference_timestamp = 0
  /\ staging = {}
  /\ run = 0
  /\ disk_owner = 0
  /\ walk_stack = <<>>
  /\ members = <<>>
  /\ to_add = <<>>
  /\ archives = <<>>
  /\ statted = <<>>
  /\ rp_status = "idle"

PinIdle ==
  /\ pin_caller = "none"
  /\ pin_input = <<>>
  /\ pin_owner = "none"
  /\ pins = {}
  /\ pin_status = "idle"

CompareIdle ==
  /\ cmp_left = <<>>
  /\ cmp_right = <<>>
  /\ cmp_op = "none"
  /\ cmp_result = "idle"

ScoutIdle ==
  /\ scout_tarball = <<>>
  /\ extract_manifest = FALSE
  /\ scout_pos = 0
  /\ destdir = <<>>
  /\ have_scout_manifest = FALSE
  /\ scout_version_marker = <<"None">>
  /\ scout_version = <<"None">>
  /\ scout_warnings = 0
  /\ scout_status = "idle"

RunIdle ==
  /\ args = <<>>
  /\ client_dir = None
  /\ remote = <<>>
  /\ runtime_tarball = "absent"
  /\ calls = <<>>
  /\ built_from = None
  /\ dest_archive = "old"
  /\ dest_metadata = "old"
  /\ run_pc = "idle"
  /\ raised = "none"
  /\ exit_status = "none"
  /\ version_txt = <<>>
  /\ resolved_runtime = None
  /\ tarball_ops = <<>>
  /\ metadata = <<>>
  /\ stages = <<>>
  /\ tmpdir = [exists |-> FALSE, files |-> {}]

NetIdle ==
  /\ net_op = "none"
  /\ server = "ok"
  /\ must_exist = FALSE
  /\ use_rsync = FALSE
  /\ log_level = "None"
  /\ requests = 0
  /\ logged = 0
  /\ net_file = "absent"
  /\ net_result = "idle"

ManifestIdle ==
  /\ version_field = <<>>
  /\ client_version = None
  /\ client_datetime = None
  /\ manifest_status = "idle"

InstallIdle ==
  /\ client_overlay = ""
  /\ install_pos = 0
  /\ last_seen = <<>>
  /\ bootstrap = <<>>
  /\ install_status = "idle"

(***************************************************************************)
(* The predicate on its own: one call on one list of path segments         *)
(***************************************************************************)

\* the directories the predicate is tried in
WantDirs ==
  { <<>>,
    <<USR>>,
    <<LIB>>,
    <<LIB, X86_64_LINUX_GNU>>,
    <<USR, LIB, X86_64_LINUX_GNU>>,
    <<LIB, X86_64_LINUX_GNU, STEAM_RUNTIME_TOOLS_0>>,
    <<USR, LIB, X86_64_LINUX_GNU, STEAM_RUNTIME_TOOLS_0>>,
    <<LIB, I386_LINUX_GNU>>,
    <<USR, LIB, I386_LINUX_GNU>>,
    <<LIB, I386_LINUX_GNU, STEAM_RUNTIME_TOOLS_0>>,
    <<USR, LIB, I386_LINUX_GNU, STEAM_RUNTIME_TOOLS_0>>,
    <<USR, USR, LIB, X86_64_LINUX_GNU>>,
    <<LIB, X86_64_LINUX_GNU, SUB>>,
    <<AMD64>>,
    <<AMD64, USR>>,
    <<AMD64, USR, BIN>>,
    <<USR, AMD64, USR, BIN>>,
    <<LIBEXEC, STEAM_RUNTIME_TOOLS_0>>,
    <<SUB>> }

\* file names tried in every directory of WantDirs
WantNames ==
  {
    <<"l", "i", "b", "z", ".", "s", "o", ".", "1">>,    \* 'libz.so.1'
    <<"l", "i", "b", "z", ".", "s", "o", ".", "1", ".", "2", ".", "1", "1">>,    \* 'libz.so.1.2.11'
    <<"l", "i", "b", "z", "s", "t", "d", ".", "s", "o", ".", "1">>,    \* 'libzstd.so.1'
    <<"l", "i", "b", "z", ".", "s", "o", ".", "1", "1">>,    \* 'libz.so.11'
    <<"l", "i", "b", "z", ".", "s", "o">>,    \* 'libz.so'
    <<"l", "i", "b", "X", "1", "1", ".", "s", "o", ".", "6">>,    \* 'libX11.so.6'
    <<"l", "i", "b", "X", "1", "1", ".", "s", "o", ".", "6", ".", "3", ".", "0">>,    \* 'libX11.so.6.3.0'
    <<"l", "i", "b", "g", "c", "r", "y", "p", "t", ".", "s", "o", ".", "1", "1">>,    \* 'libgcrypt.so.11'
    <<"l", "i", "b", "e", "l", "f", ".", "s", "o", ".", "1">>,    \* 'libelf.so.1'
    <<"l", "i", "b", "e", "l", "f", "-", "0", ".", "1", "5", "8", ".", "s", "o">>,    \* 'libelf-0.158.so'
    <<"l", "i", "b", "e", "l", "f", "-", ".", "s", "o">>,    \* 'libelf-.so'
    <<"l", "i", "b", "e", "l", "f", "-", "0", ".", "1", "5", "8", ".", "s", "o", ".", "1">>,    \* 'libelf-0.158.so.1'
    <<"l", "i", "b", "e", "l", "f", ".", "s", "o">>,    \* 'libelf.so'
    <<"s", "r", "t", "-", "l", "o", "g", "g", "e", "r">>,    \* 'srt-logger'
    <<"s", "r", "t", "-", "b", "w", "r", "a", "p">>,    \* 'srt-bwrap'
    <<"l", "o", "g", "g", "e", "r", "-", "0", ".", "b", "a", "s", "h">>,    \* 'logger-0.bash'
    <<"s", "t", "e", "a", "m", "-", "r", "u", "n", "t", "i", "m", "e", "-", "l", "a", "u", "n", "c", "h", "-", "c", "l", "i", "e", "n", "t">>,    \* 'steam-runtime-launch-client'
    <<"l", "i", "b">>,    \* 'lib'
    <<"l", "i", "b", "e", "x", "e", "c">>,    \* 'libexec'
    <<"s", "h", "a", "r", "e">>,    \* 'share'
    <<"b", "i", "n">>,    \* 'bin'
    <<"u", "s", "r">>,    \* 'usr'
    <<"r", "u", "n", ".", "s", "h">>,    \* 'run.sh'
    <<"x">>,    \* 'x'
    <<>>    \* ''
  }

WantInputs == WantDirs \cup { d \o <<n>> : d \in WantDirs, n \in WantNames }

WantInit ==
  /\ path_parts \in WantInputs
  /\ want_result = "none"
  /\ ExtractIdle
  /\ FetchIdle
  /\ RepackIdle
  /\ PinIdle
  /\ CompareIdle
  /\ ScoutIdle
  /\ RunIdle
  /\ NetIdle
  /\ ManifestIdle
  /\ InstallIdle

CallWant ==
  /\ want_result = "none"
  /\ want_result' = want_file_from_runtime(path_parts)
  /\ UNCHANGED path_parts
  /\ UNCHANGED notWant

WantNext == CallWant

SpecWant == WantInit /\ [][WantNext]_vars

(***************************************************************************)
(* Properties of want_file_from_runtime                                    *)
(***************************************************************************)

\* the per-architecture library directories, with and without 'usr'
LibDirs(archdir) ==
  { <<LIB, archdir>>,
    <<LIB, archdir, STEAM_RUNTIME_TOOLS_0>>,
    <<USR, LIB, archdir>>,
    <<USR, LIB, archdir, STEAM_RUNTIME_TOOLS_0>> }

\* name is one of sonames, or one of them followed by '.' and anything
IsSonameOrVersioned(name, sonames) ==
  \E i \in DOMAIN sonames :
    \/ name = sonames[i]
    \/ /\ Len(name) > Len(sonames[i])
       /\ \A k \in DOMAIN sonames[i] : name[k] = sonames[i][k]
       /\ name[Len(sonames[i]) + 1] = "."

FileName == path_parts[Len(path_parts)]

LIBZ_SO_1 == <<"l", "i", "b", "z", ".", "s", "o", ".", "1">>    \* 'libz.so.1'
LIBZ_SO_1_2_11 == <<"l", "i", "b", "z", ".", "s", "o", ".", "1", ".", "2", ".", "1", "1">>    \* 'libz.so.1.2.11'
LIBZSTD_SO_1 == <<"l", "i", "b", "z", "s", "t", "d", ".", "s", "o", ".", "1">>    \* 'libzstd.so.1'
LIBX11_SO_6 == <<"l", "i", "b", "X", "1", "1", ".", "s", "o", ".", "6">>    \* 'libX11.so.6'

\* C6: for a file directly inside a per-architecture library directory the
\* predicate accepts by the soname rule exactly the names that equal a soname
\* of that architecture's list or start with one followed by '.' (the amd64
\* directories accept the names matching an amd64 pattern besides); so
\* libz.so.1 and libz.so.1.2.11 are accepted under x86_64, libzstd.so.1 and
\* the i386-only libX11.so.6 are rejected there.
C6_SonameRule ==
  (want_result \notin {"none", "idle"} /\ path_parts # <<>>) =>
    /\ AllButLast(path_parts) \in LibDirs(I386_LINUX_GNU) =>
         (want_result = "True"
            <=> IsSonameOrVersioned(FileName, BOOTSTRAP_RUNTIME_I386_SONAMES))
    /\ ( /\ AllButLast(path_parts) \in LibDirs(X86_64_LINUX_GNU)
         /\ ~ any_pattern(FileName, BOOTSTRAP_RUNTIME_AMD64_PATTERNS) ) =>
         (want_result = "True"
            <=> IsSonameOrVersioned(FileName, BOOTSTRAP_RUNTIME_AMD64_SONAMES))
    /\ path_parts = <<LIB, X86_64_LINUX_GNU, LIBZ_SO_1>> => want_result = "True"
    /\ path_parts = <<LIB, X86_64_LINUX_GNU, LIBZ_SO_1_2_11>> => want_result = "True"
    /\ path_parts = <<LIB, X86_64_LINUX_GNU, LIBZSTD_SO_1>> => want_result = "False"
    /\ path_parts = <<LIB, X86_64_LINUX_GNU, LIBX11_SO_6>> => want_result = "False"
    /\ path_parts = <<LIB, I386_LINUX_GNU, LIBX11_SO_6>> => want_result = "True"

\* C6 witness: usr/lib/x86_64-linux-gnu/libz.so.1.2.11 was accepted
C6_Witness ==
  /\ path_parts = <<USR, LIB, X86_64_LINUX_GNU, LIBZ_SO_1_2_11>>
  /\ want_result = "True"

(***************************************************************************)
(* The extraction loop of Main.build_bootstrap                             *)
(***************************************************************************)

\* the most members one archive has
MaxMembers == 3

\* The members an archive may hold.  A link's target is either a directory
\* inside the destination root or an existing directory outside of it.
ArchiveMembers ==
  {
    \* 'steam-runtime'
    [name |-> <<"s", "t", "e", "a", "m", "-", "r", "u", "n", "t", "i", "m", "e">>,
     type |-> "DIR", target |-> "none"],
    \* 'steam-runtime/run.sh'
    [name |-> <<"s", "t", "e", "a", "m", "-", "r", "u", "n", "t", "i", "m", "e", "/", "r", "u", "n", ".", "s", "h">>,
     type |-> "REG", target |-> "none"],
    \* 'steam-runtime/run.sh'
    [name |-> <<"s", "t", "e", "a", "m", "-", "r", "u", "n", "t", "i", "m", "e", "/", "r", "u", "n", ".", "s", "h">>,
     type |-> "LNK", target |-> "outside"],
    \* 'steam-runtime/scripts'
    [name |-> <<"s", "t", "e", "a", "m", "-", "r", "u", "n", "t", "i", "m", "e", "/", "s", "c", "r", "i", "p", "t", "s">>,
     type |-> "DIR", target |-> "none"],
    \* 'steam-runtime/scripts'
    [name |-> <<"s", "t", "e", "a", "m", "-", "r", "u", "n", "t", "i", "m", "e", "/", "s", "c", "r", "i", "p", "t", "s">>,
     type |-> "SYM", target |-> "outside"],
    \* 'steam-runtime/scripts'
    [name |-> <<"s", "t", "e", "a", "m", "-", "r", "u", "n", "t", "i", "m", "e", "/", "s", "c", "r", "i", "p", "t", "s">>,
     type |-> "SYM", target |-> "inside"],
    \* 'steam-runtime/scripts/x'
    [name |-> <<"s", "t", "e", "a", "m", "-", "r", "u", "n", "t", "i", "m", "e", "/", "s", "c", "r", "i", "p", "t", "s", "/", "x">>,
     type |-> "REG", target |-> "none"],
    \* 'steam-runtime/usr'
    [name |-> <<"s", "t", "e", "a", "m", "-", "r", "u", "n", "t", "i", "m", "e", "/", "u", "s", "r">>,
     type |-> "DIR", target |-> "none"],
    \* 'steam-runtime/lib/i386-linux-gnu/libz.so.1'
    [name |-> <<"s", "t", "e", "a", "m", "-", "r", "u", "n", "t", "i", "m", "e", "/", "l", "i", "b", "/", "i", "3", "8", "6", "-", "l", "i", "n", "u", "x", "-", "g", "n", "u", "/", "l", "i", "b", "z", ".", "s", "o", ".", "1">>,
     type |-> "REG", target |-> "none"],
    \* 'steam-runtime/lib/i386-linux-gnu/libzstd.so.1'
    [name |-> <<"s", "t", "e", "a", "m", "-", "r", "u", "n", "t", "i", "m", "e", "/", "l", "i", "b", "/", "i", "3", "8", "6", "-", "l", "i", "n", "u", "x", "-", "g", "n", "u", "/", "l", "i", "b", "z", "s", "t", "d", ".", "s", "o", ".", "1">>,
     type |-> "REG", target |-> "none"],
    \* 'steam-runtime/../x'
    [name |-> <<"s", "t", "e", "a", "m", "-", "r", "u", "n", "t", "i", "m", "e", "/", ".", ".", "/", "x">>,
     type |-> "REG", target |-> "none"],
    \* 'steam-runtime/scripts/../../x'
    [name |-> <<"s", "t", "e", "a", "m", "-", "r", "u", "n", "t", "i", "m", "e", "/", "s", "c", "r", "i", "p", "t", "s", "/", ".", ".", "/", ".", ".", "/", "x">>,
     type |-> "REG", target |-> "none"],
    \* '/etc/x'
    [name |-> <<"/", "e", "t", "c", "/", "x">>,
     type |-> "REG", target |-> "none"],
    \* 'other/x'
    [name |-> <<"o", "t", "h", "e", "r", "/", "x">>,
     type |-> "REG", target |-> "none"]
  }

\* path_check without its second test
path_check_first_segment_only(bits) ==
  IF bits[1] # STEAM_RUNTIME THEN "ValueError" ELSE "ok"

\* the checks of the loop body before the predicate is asked
path_check(bits) ==
  IF bits[1] # STEAM_RUNTIME THEN "ValueError"
  ELSE IF DOTDOT \in Elems(bits) THEN "ValueError"
  ELSE "ok"

\* the non-empty proper prefixes of a path
Parents(p) == { SubSeq(p, 1, k) : k \in 1 .. (Len(p) - 1) }

FsPaths(f) == { o.path : o \in f }

IsOutsideLink(f, q) ==
  \E o \in f : o.path = q /\ o.kind = "SYM" /\ o.to = "outside"

\* Where the operating system resolves path p: outside the destination root
\* as soon as a directory on the way is a symbolic link that leaves it; with
\* final, the last component is followed too (open() for writing).
Resolves(f, p, final) ==
  IF \/ \E q \in Parents(p) : IsOutsideLink(f, q)
     \/ final /\ IsOutsideLink(f, p)
  THEN "outside" ELSE "inside"

\* TarFile.extract(info, path=bootstrap_runtime_dir) with the interpreter's
\* default filter: the outcome ("ok" or the exception raised) and the
\* filesystem afterwards.  The member lands at path/info.name.
tar_extract(filter, f, t, info, p) ==
  LET kindAt(q) == IF q \in FsPaths(f)
                   THEN (CHOOSE o \in f : o.path = q).kind ELSE "none"
      missing == { q \in Parents(p) : q \notin FsPaths(f) }
      withParents == f \cup { [path |-> q, kind |-> "DIR", to |-> "none"] : q \in missing }
      parentsTouched == t \cup { [path |-> q, where |-> Resolves(f, q, FALSE)] : q \in missing }
      without == { o \in withParents : o.path # p }
      fail(e) == [status |-> e, fs |-> f, touched |-> t]
  IN
    IF /\ filter = "data"
       /\ \/ info.type \in {"SYM", "LNK"} /\ info.target = "outside"
          \/ Resolves(f, p, TRUE) = "outside"
    THEN fail("FilterError")
    ELSE IF \E q \in Parents(p) : kindAt(q) \in {"REG", "LNK"}
    THEN fail("OSError")
    ELSE IF info.type = "DIR"
    THEN \* os.mkdir; a path that exists already is left as it is
         IF kindAt(p) # "none"
         THEN [status |-> "ok", fs |-> withParents, touched |-> parentsTouched]
         ELSE [status |-> "ok",
               fs |-> withParents \cup {[path |-> p, kind |-> "DIR", to |-> "none"]},
               touched |-> parentsTouched \cup {[path |-> p, where |-> Resolves(f, p, FALSE)]}]
    ELSE IF info.type = "REG"
    THEN \* open(targetpath, 'wb') follows a symbolic link at targetpath
         IF kindAt(p) = "DIR" THEN fail("OSError")
         ELSE [status |-> "ok",
               fs |-> IF kindAt(p) = "SYM" THEN withParents
                      ELSE without \cup {[path |-> p, kind |-> "REG", to |-> "none"]},
               touched |-> parentsTouched \cup {[path |-> p, where |-> Resolves(f, p, TRUE)]}]
    ELSE IF info.type = "SYM"
    THEN \* os.unlink(targetpath) if it exists, then os.symlink
         IF kindAt(p) = "DIR" THEN fail("OSError")
         ELSE [status |-> "ok",
               fs |-> without \cup {[path |-> p, kind |-> "SYM", to |-> info.target]},
               touched |-> parentsTouched \cup {[path |-> p, where |-> Resolves(f, p, FALSE)]}]
    ELSE \* os.link(target, targetpath)
         IF kindAt(p) # "none" THEN fail("OSError")
         ELSE [status |-> "ok",
               fs |-> withParents \cup {[path |-> p, kind |-> "LNK", to |-> info.target]},
               touched |-> parentsTouched \cup {[path |-> p, where |-> Resolves(f, p, FALSE)]}]

\* the loop body without its `if`: every member is extracted
wanted_unconditionally(bits) == TRUE

\* whether the loop body hands the member to tar_reader.extract
wanted(bits) == want_file_from_runtime(AllButFirst(bits)) = "True"

ExtractInit ==
  /\ extraction_filter \in {"fully_trusted", "data"}
  /\ stream = <<>>
  /\ extracted = {}
  /\ fs = {}
  /\ touched = {}
  /\ ex_status = "running"
  /\ WantIdle
  /\ FetchIdle
  /\ RepackIdle
  /\ PinIdle
  /\ CompareIdle
  /\ ScoutIdle
  /\ RunIdle
  /\ NetIdle
  /\ ManifestIdle
  /\ InstallIdle

\* one turn of `for info in tar_reader`
ReadMember(info) ==
  /\ ex_status = "running"
  /\ Len(stream) < MaxMembers
  /\ stream' = Append(stream, info)
  /\ LET bits == split(info.name, "/")
         here == Len(stream) + 1
     IN
       IF path_check(bits) # "ok"
       THEN /\ ex_status' = path_check(bits)
            /\ UNCHANGED <<extracted, fs, touched>>
       ELSE IF want_file_from_runtime(AllButFirst(bits)) = "IndexError"
       THEN /\ ex_status' = "IndexError"
            /\ UNCHANGED <<extracted, fs, touched>>
       ELSE IF ~ wanted(bits)
       THEN UNCHANGED <<extracted, fs, touched, ex_status>>
       ELSE LET r == tar_extract(extraction_filter, fs, touched, info, bits)
            IN /\ fs' = r.fs
               /\ touched' = r.touched
               /\ IF r.status = "ok"
                  THEN extracted' = extracted \cup {here} /\ UNCHANGED ex_status
                  ELSE ex_status' = r.status /\ UNCHANGED extracted
  /\ UNCHANGED extraction_filter
  /\ UNCHANGED notExtract

\* the tar reader has no more members
EndOfArchive ==
  /\ ex_status = "running"
  /\ ex_status' = "done"
  /\ UNCHANGED <<extraction_filter, stream, extracted, fs, touched>>
  /\ UNCHANGED notExtract

ExtractNext ==
  \/ \E info \in ArchiveMembers : ReadMember(info)
  \/ EndOfArchive

SpecExtract == ExtractInit /\ [][ExtractNext]_vars

(***************************************************************************)
(* Properties of the extraction loop                                       *)
(***************************************************************************)

\* a name with a '..' segment, or whose first segment is not 'steam-runtime'
HasTraversal(name) == \E k \in DOMAIN split(name, "/") : split(name, "/")[k] = DOTDOT
OutsideTopDir(name) == split(name, "/")[1] # STEAM_RUNTIME

\* C1: a member whose name has a '..' segment, or whose first segment is not
\* 'steam-runtime', ends the loop with an error at that member: it is the
\* last member read, and neither it nor any later member is extracted.
C1_RejectedMemberEndsLoop ==
  \A i \in DOMAIN stream :
    (HasTraversal(stream[i].name) \/ OutsideTopDir(stream[i].name)) =>
      /\ ex_status = "ValueError"
      /\ i = Len(stream)
      /\ \A j \in extracted : j < i

\* C1 witness: a member with a '..' segment inside steam-runtime/ was read
\* after another member had been extracted
C1_Witness ==
  /\ Len(stream) >= 2
  /\ extracted # {}
  /\ HasTraversal(stream[Len(stream)].name)
  /\ ~ OutsideTopDir(stream[Len(stream)].name)
  /\ ex_status = "ValueError"

\* C2: every path the loop creates or writes lies inside the destination root.
C2_WritesStayInsideRoot ==
  \A w \in touched : w.where = "inside"

\* the predicate's answer for the member at position i of the stream
Answer(i) == want_file_from_runtime(AllButFirst(split(stream[i].name, "/")))
Asked(i) == ~ HasTraversal(stream[i].name) /\ ~ OutsideTopDir(stream[i].name)

\* C5: every extracted member is one the predicate accepted; a member the
\* predicate rejected is not extracted and does not end the loop with an error.
C5_OnlyAcceptedMembersExtracted ==
  /\ \A i \in extracted : Asked(i) /\ Answer(i) = "True"
  /\ \A i \in DOMAIN stream :
       (Asked(i) /\ Answer(i) = "False") =>
         /\ i \notin extracted
         /\ (i = Len(stream) => ex_status \in {"running", "done"})

\* C5 witness: the loop ran to the end of an archive after extracting one
\* member and skipping another
C5_Witness ==
  /\ ex_status = "done"
  /\ extracted # {}
  /\ \E i \in DOMAIN stream : Asked(i) /\ Answer(i) = "False" /\ i \notin extracted

(***************************************************************************)
(* SteamClient.download_client and SteamClient.download_runtime:           *)
(* download every asset and verify it                                      *)
(***************************************************************************)

\* the most bytes a server sends for one asset
MaxBytes == 2

\* the contents a server may send: byte strings of up to MaxBytes bytes
RECURSIVE ByteStrings(_)
ByteStrings(n) ==
  IF n = 0 THEN {<<>>}
  ELSE ByteStrings(n - 1) \cup
       { Append(b, x) : b \in { c \in ByteStrings(n - 1) : Len(c) = n - 1 }, x \in {0, 1} }

\* hashlib.sha256 is a function of the bytes written, and two contents may
\* share a digest; here the digest is the parity of the bytes' sum plus their
\* number.  sha256_update is sha256.update(blob), on the digest so far.
RECURSIVE sha256_update(_, _)
sha256_update(h, blob) ==
  IF blob = <<>> THEN h
  ELSE sha256_update((h + Head(blob) + 1) % 2, Tail(blob))

\* HashingWriter.__init__ and HashingWriter.write
HashingWriter == [size |-> 0, sha256 |-> 0]

write(hasher, blob) ==
  [size |-> hasher.size + Len(blob),
   sha256 |-> sha256_update(hasher.sha256, blob)]

\* shutil.copyfileobj(downloader, hasher): the content arrives blob by blob
\* (here byte by byte) and every blob is written
RECURSIVE copyfileobj(_, _)
copyfileobj(content, hasher) ==
  IF content = <<>> THEN hasher
  ELSE copyfileobj(Tail(content), write(hasher, <<Head(content)>>))

\* RuntimeArchive.CODENAMED_SUITE_VERSIONS.get(str(major_version),
\*                                             f'steamrt{major_version}')
SCOUT == <<"s", "c", "o", "u", "t">>
SNIPER == <<"s", "n", "i", "p", "e", "r">>
SOLDIER == <<"s", "o", "l", "d", "i", "e", "r">>
MEDIC == <<"m", "e", "d", "i", "c">>
STEAMRT == <<"s", "t", "e", "a", "m", "r", "t">>

suite_of(major) ==
  IF major = <<"1">> THEN SCOUT
  ELSE IF major = <<"2">> THEN SOLDIER
  ELSE IF major = <<"3">> THEN SNIPER
  ELSE IF major = <<"4">> THEN MEDIC
  ELSE STEAMRT \o major

VERSION == <<"v", "e", "r", "s", "i", "o", "n">>    \* 'version'
BINS_UBUNTU12 == <<"b", "i", "n", "s", "_", "u", "b", "u", "n", "t", "u", "1", "2">>    \* 'bins_ubuntu12'
RUNTIME_PART0_UBUNTU12 == <<"r", "u", "n", "t", "i", "m", "e", "_", "p", "a", "r", "t", "0", "_", "u", "b", "u", "n", "t", "u", "1", "2">>    \* 'runtime_part0_ubuntu12'
RUNTIME_SCOUT_UBUNTU12 == <<"r", "u", "n", "t", "i", "m", "e", "_", "s", "c", "o", "u", "t", "_", "u", "b", "u", "n", "t", "u", "1", "2">>    \* 'runtime_scout_ubuntu12'
RUNTIME_SNIPER_UBUNTU12 == <<"r", "u", "n", "t", "i", "m", "e", "_", "s", "n", "i", "p", "e", "r", "_", "u", "b", "u", "n", "t", "u", "1", "2">>    \* 'runtime_sniper_ubuntu12'
RUNTIME_ == <<"r", "u", "n", "t", "i", "m", "e", "_">>    \* 'runtime_'
RUNTIME_PART == <<"r", "u", "n", "t", "i", "m", "e", "_", "p", "a", "r", "t">>    \* 'runtime_part'
_UBUNTU12 == <<"_", "u", "b", "u", "n", "t", "u", "1", "2">>    \* '_ubuntu12'

\* is_whole and is_part of download_runtime
is_whole(name, suite) == name = RUNTIME_ \o suite \o _UBUNTU12

is_part(name, suite) ==
  /\ suite = SCOUT
  /\ startswith(name, RUNTIME_PART)
  /\ endswith(name, _UBUNTU12)

\* whether the loop of the method downloads the manifest item of this name
is_downloaded(fn, major, name) ==
  IF fn = "download_client"
  THEN name # VERSION
  ELSE is_whole(name, suite_of(major)) \/ is_part(name, suite_of(major))

\* sorted(manifest.items(), key=name): the names in ascending order
RECURSIVE as_list(_)
as_list(set) ==
  IF set = {} THEN <<>>
  ELSE LET x == CHOOSE y \in set : TRUE
       IN <<x>> \o as_list(set \ {x})

sorted_names(mf) == sorted(as_list(DOMAIN mf))

\* verify with the size test under `elif`: skipped once the hash has failed
verify_elif(hasher, value, strictly, basename) ==
  LET hashBad == hasher.sha256 # value.sha2
      sizeBad == ~ hashBad /\ hasher.size # int(value.size)
  IN [warnings |->
        (IF hashBad THEN <<[file |-> basename, check |-> "hash"]>> ELSE <<>>)
        \o (IF sizeBad /\ ~ (strictly /\ hashBad)
            THEN <<[file |-> basename, check |-> "size"]>> ELSE <<>>),
      raised |-> strictly /\ (hashBad \/ sizeBad)]

\* verify with the size test only warning
verify_size_never_raises(hasher, value, strictly, basename) ==
  LET hashBad == hasher.sha256 # value.sha2
      sizeBad == hasher.size # int(value.size)
  IN [warnings |->
        (IF hashBad THEN <<[file |-> basename, check |-> "hash"]>> ELSE <<>>)
        \o (IF sizeBad /\ ~ (strictly /\ hashBad)
            THEN <<[file |-> basename, check |-> "size"]>> ELSE <<>>),
      raised |-> strictly /\ hashBad]

\* The two tests after copyfileobj: the warnings they log, and whether one
\* of them raises ValueError.  The size test is not reached when the hash
\* test has raised.
verify(hasher, value, strictly, basename) ==
  LET hashBad == hasher.sha256 # value.sha2
      sizeBad == hasher.size # int(value.size)
  IN [warnings |->
        (IF hashBad THEN <<[file |-> basename, check |-> "hash"]>> ELSE <<>>)
        \o (IF sizeBad /\ ~ (strictly /\ hashBad)
            THEN <<[file |-> basename, check |-> "size"]>> ELSE <<>>),
      raised |-> strictly /\ (hashBad \/ sizeBad)]

\* the manifests tried: every asset names its file, its sha2 and its size
Asset(f, h, n) == [file |-> f, sha2 |-> h, size |-> n]

Manifests ==
  { (VERSION :> "1610000000") @@
    (BINS_UBUNTU12 :> Asset("bins_ubuntu12.zip", 1, <<"1">>)),
    (VERSION :> "1610000000") @@
    (BINS_UBUNTU12 :> Asset("bins_ubuntu12.zip", 1, <<"1">>)) @@
    (RUNTIME_PART0_UBUNTU12 :> Asset("runtime_part0_ubuntu12.zip", 0, <<"2">>)),
    (VERSION :> "1610000000") @@
    (BINS_UBUNTU12 :> Asset("bins_ubuntu12.zip", 0, <<"0", "2">>)) @@
    (RUNTIME_SCOUT_UBUNTU12 :> Asset("runtime_scout_ubuntu12.zip", 1, <<"1">>)) @@
    (RUNTIME_PART0_UBUNTU12 :> Asset("runtime_part0_ubuntu12.zip", 1, <<"2">>)),
    (VERSION :> "1610000000") @@
    (BINS_UBUNTU12 :> Asset("bins_ubuntu12.zip", 1, <<"1">>)) @@
    (RUNTIME_SNIPER_UBUNTU12 :> Asset("runtime_sniper_ubuntu12.zip", 0, <<"1">>)) }

\* what a zip archive lists: one member for each byte of the archive, a 1 for
\* a member that carries the runtime (under the name the asset's archive
\* gives it), a 0 for any other file of the client
member_filename(name, byte) ==
  IF byte = 0 THEN "steam.sh"
  ELSE IF name = RUNTIME_SCOUT_UBUNTU12 THEN "ubuntu12_32/steam-runtime.tar.xz"
  ELSE IF name = RUNTIME_SNIPER_UBUNTU12 THEN "ubuntu12_64/steam-runtime-sniper.tar.xz"
  ELSE IF name = RUNTIME_PART0_UBUNTU12 THEN "ubuntu12_32/steam-runtime.tar.xz.part0"
  ELSE "ubuntu12_32/steam"

\* zipfile.ZipFile(...).infolist(), each member with the bytes it unpacks to
infolist(name, content) ==
  [i \in DOMAIN content |->
     [filename |-> member_filename(name, content[i]), data |-> <<content[i]>>]]

\* the files datadir may hold when the method is called: none, or an older
\* runtime tarball and an older client file (a byte 2 is in no download)
DataDirs ==
  { {},
    { [name |-> "steam-runtime.tar.xz", content |-> <<2>>],
      [name |-> "steam.sh", content |-> <<2>>] } }

\* the download written next to the files of datadir
hasher_path_in_datadir(basename) == [dir |-> "datadir", name |-> basename]

\* os.path.join(tempdir, basename): where a download is written
hasher_path(basename) == [dir |-> "tempdir", name |-> basename]

\* open(path, 'wb') and the writes that follow: the file of this name is
\* created or replaced
write_file(files, name, content) ==
  { f \in files : f.name # name } \cup { [name |-> name, content |-> content] }

\* the with block left by an exception keeps the directory
TemporaryDirectory_exit_on_return_only(dir, exc) ==
  IF exc THEN dir ELSE [exists |-> FALSE, files |-> {}]

\* the end of `with tempfile.TemporaryDirectory() as tempdir`: the directory
\* and all in it are removed, whether the block returns or an exception
\* leaves it
TemporaryDirectory_exit(dir, exc) == [exists |-> FALSE, files |-> {}]

\* download_client, lines 218-224: every member of every zip downloaded, in
\* the order of names, is extracted into datadir
RECURSIVE extract_parts(_, _)
extract_parts(files, parts) ==
  IF parts = <<>> THEN files
  ELSE extract_parts(write_file(files, Head(parts).filename, Head(parts).data),
                     Tail(parts))

RECURSIVE extract_zips(_, _, _)
extract_zips(files, temp, names) ==
  IF names = <<>> THEN files
  ELSE LET zip == CHOOSE f \in temp : f.name = manifest[Head(names)].file
       IN extract_zips(extract_parts(files, infolist(Head(names), zip.content)),
                       temp, Tail(names))

\* tar_name and look_for of download_runtime
tar_name(suite) ==
  IF suite = SCOUT THEN "steam-runtime.tar.xz"
  ELSE IF suite = SNIPER THEN "SteamLinuxRuntime_sniper.tar.xz"
  ELSE "SteamLinuxRuntime_N.tar.xz"

look_for(suite) ==
  IF suite = SCOUT THEN {"ubuntu12_32/steam-runtime.tar.xz"}
  ELSE IF suite = SNIPER
  THEN {"ubuntu12_64/SteamLinuxRuntime_sniper.tar.xz",
        "ubuntu12_64/steam-runtime-sniper.tar.xz"}
  ELSE {"ubuntu12_64/SteamLinuxRuntime_N.tar.xz"}

\* '.tar.xz.part' in part.filename
is_tar_xz_part(filename) == filename = "ubuntu12_32/steam-runtime.tar.xz.part0"

\* the bytes copied to tar_writer from the parts, zip after zip
RECURSIVE copy_parts(_, _)
copy_parts(temp, names) ==
  IF names = <<>> THEN <<>>
  ELSE LET zip == CHOOSE f \in temp : f.name = manifest[Head(names)].file
           parts == SelectSeq(infolist(Head(names), zip.content),
                              LAMBDA p : is_tar_xz_part(p.filename))
       IN [i \in DOMAIN parts |-> parts[i].data[1]] \o copy_parts(temp, Tail(names))

\* download_runtime, lines 314-350: what is written to the tarball that was
\* opened for writing, and how the method ends
assemble_runtime(temp, suite, downloaded) ==
  LET whole == SelectSeq(downloaded, LAMBDA n : is_whole(n, suite))
      zip_part_names == SelectSeq(downloaded, LAMBDA n : ~ is_whole(n, suite))
  IN IF whole # <<>>
     THEN LET zip == CHOOSE f \in temp : f.name = manifest[whole[1]].file
              found == SelectSeq(infolist(whole[1], zip.content),
                                 LAMBDA p : p.filename \in look_for(suite))
          IN IF found # <<>>
             THEN [content |-> found[1].data, result |-> "True"]
             ELSE [content |-> <<>>, result |-> "AssertionError"]
     ELSE LET copied == copy_parts(temp, zip_part_names)
          IN [content |-> copied,
              result |-> IF copied # <<>> THEN "True" ELSE "False"]

FetchInit ==
  /\ fetch_fn \in {"download_client", "download_runtime"}
  /\ strict \in BOOLEAN
  /\ major_version \in IF fetch_fn = "download_runtime"
                       THEN {<<"1">>, <<"3">>} ELSE {<<>>}
  /\ manifest \in Manifests
  /\ items = sorted_names(manifest)
  /\ fetch_pos = 0
  /\ downloads = <<>>
  /\ warnings = <<>>
  /\ fetch_status = "running"
  /\ tempdir = [exists |-> TRUE, files |-> {}]
  /\ datadir \in DataDirs
  /\ datadir_before = datadir
  /\ fetch_result = "pending"
  /\ WantIdle
  /\ ExtractIdle
  /\ RepackIdle
  /\ PinIdle
  /\ CompareIdle
  /\ ScoutIdle
  /\ RunIdle
  /\ NetIdle
  /\ ManifestIdle
  /\ InstallIdle

\* the item the loop is at
NextName == items[fetch_pos + 1]

InLoop ==
  /\ fetch_status = "running"
  /\ fetch_pos < Len(items)

\* an item the method does not download: `continue`, or neither whole nor part
SkipItem ==
  /\ InLoop
  /\ ~ is_downloaded(fetch_fn, major_version, NextName)
  /\ fetch_pos' = fetch_pos + 1
  /\ UNCHANGED <<fetch_fn, strict, major_version, manifest, items, downloads,
                 warnings, fetch_status, tempdir, datadir, datadir_before,
                 fetch_result>>
  /\ UNCHANGED notFetch

\* an item the method downloads: the server sends content, the hasher
\* writes and accumulates it, and the two tests follow; an exception raised
\* by a test leaves the with block of the temporary directory
DownloadItem(content) ==
  /\ InLoop
  /\ is_downloaded(fetch_fn, major_version, NextName)
  /\ LET value == manifest[NextName]
         hasher == copyfileobj(content, HashingWriter)
         v == verify(hasher, value, strict, value.file)
     IN /\ downloads' = Append(downloads, [name |-> NextName, content |-> content])
        /\ warnings' = warnings \o v.warnings
        /\ IF v.raised
           THEN fetch_status' = "ValueError" /\ UNCHANGED fetch_pos
           ELSE fetch_pos' = fetch_pos + 1 /\ UNCHANGED fetch_status
        /\ LET path == hasher_path(value.file)
               written == IF path.dir = "tempdir"
                          THEN [tempdir EXCEPT
                                  !.files = write_file(@, path.name, content)]
                          ELSE tempdir
           IN /\ tempdir' = IF v.raised
                            THEN TemporaryDirectory_exit(written, TRUE)
                            ELSE written
              /\ datadir' = IF path.dir = "datadir"
                            THEN write_file(datadir, path.name, content)
                            ELSE datadir
  /\ UNCHANGED <<fetch_fn, strict, major_version, manifest, items,
                 datadir_before, fetch_result>>
  /\ UNCHANGED notFetch

\* verbose_urlopen raises: the request failed
DownloadFails ==
  /\ InLoop
  /\ is_downloaded(fetch_fn, major_version, NextName)
  /\ fetch_status' = "URLError"
  /\ tempdir' = TemporaryDirectory_exit(tempdir, TRUE)
  /\ UNCHANGED <<fetch_fn, strict, major_version, manifest, items, fetch_pos,
                 downloads, warnings, datadir, datadir_before, fetch_result>>
  /\ UNCHANGED notFetch

\* the loop has passed every item
AllVerified ==
  /\ fetch_status = "running"
  /\ fetch_pos = Len(items)
  /\ fetch_status' = "verified"
  /\ UNCHANGED <<fetch_fn, strict, major_version, manifest, items, fetch_pos,
                 downloads, warnings, tempdir, datadir, datadir_before,
                 fetch_result>>
  /\ UNCHANGED notFetch

\* the names of the assets downloaded, in the order of the loop
DownloadedNames == [i \in DOMAIN downloads |-> downloads[i].name]

\* download_client after the loop: the zips are unpacked into datadir, and
\* the method returns
ExtractZips ==
  /\ fetch_fn = "download_client"
  /\ fetch_status = "verified"
  /\ fetch_result = "pending"
  /\ datadir' = extract_zips(datadir, tempdir.files, DownloadedNames)
  /\ fetch_result' = "None"
  /\ tempdir' = TemporaryDirectory_exit(tempdir, FALSE)
  /\ UNCHANGED <<fetch_fn, strict, major_version, manifest, items, fetch_pos,
                 downloads, warnings, fetch_status, datadir_before>>
  /\ UNCHANGED notFetch

\* download_runtime after the loop: the tarball in datadir is opened for
\* writing, the runtime is copied into it from the whole zip or from the
\* parts, and the method returns or raises AssertionError
WriteTarball ==
  /\ fetch_fn = "download_runtime"
  /\ fetch_status = "verified"
  /\ fetch_result = "pending"
  /\ LET suite == suite_of(major_version)
         r == assemble_runtime(tempdir.files, suite, DownloadedNames)
     IN /\ datadir' = write_file(datadir, tar_name(suite), r.content)
        /\ fetch_result' = r.result
        /\ tempdir' = TemporaryDirectory_exit(tempdir, r.result = "AssertionError")
  /\ UNCHANGED <<fetch_fn, strict, major_version, manifest, items, fetch_pos,
                 downloads, warnings, fetch_status, datadir_before>>
  /\ UNCHANGED notFetch

FetchNext ==
  \/ SkipItem
  \/ \E content \in ByteStrings(MaxBytes) : DownloadItem(content)
  \/ DownloadFails
  \/ AllVerified
  \/ ExtractZips
  \/ WriteTarball

SpecFetch == FetchInit /\ [][FetchNext]_vars

(***************************************************************************)
(* Properties of the download-and-verify phase                             *)
(***************************************************************************)

\* what a download is measured against: the bytes received, counted and
\* digested in one piece
HashDiffers(d) ==
  (Len(d.content) + Cardinality({k \in DOMAIN d.content : d.content[k] = 1})) % 2
    # manifest[d.name].sha2

SizeDiffers(d) == Len(d.content) # int(manifest[d.name].size)

Downloaded == { downloads[i] : i \in DOMAIN downloads }

WarningsFor(i, check) ==
  { k \in DOMAIN warnings :
      /\ warnings[k].file = manifest[downloads[i].name].file
      /\ warnings[k].check = check }

\* C3: with strict=True the download-and-verify phase raises ValueError if
\* and only if a downloaded asset's digest or byte count differs from the
\* manifest's; with every asset matching on both it completes.
C3_StrictRaisesIffMismatch ==
  (fetch_status # "idle" /\ strict) =>
    /\ fetch_status = "ValueError"
         <=> \E d \in Downloaded : HashDiffers(d) \/ SizeDiffers(d)
    /\ (fetch_pos = Len(items))
         => fetch_status \in {"running", "verified"}

\* C3 witness: the second asset downloaded has the right digest and the
\* wrong size, and the call has raised
C3_Witness ==
  /\ strict
  /\ fetch_status = "ValueError"
  /\ Len(downloads) = 2
  /\ ~ HashDiffers(downloads[2])
  /\ SizeDiffers(downloads[2])

\* C4: with strict=False no mismatch raises; every downloaded asset has one
\* warning for a failed hash test and one for a failed size test, each
\* whatever the other test found, and the loop goes on to the next item.
C4_NonStrictWarnsPerCheck ==
  (fetch_status # "idle" /\ ~ strict) =>
    /\ fetch_status # "ValueError"
    /\ \A i \in DOMAIN downloads :
         /\ Cardinality(WarningsFor(i, "hash")) = IF HashDiffers(downloads[i]) THEN 1 ELSE 0
         /\ Cardinality(WarningsFor(i, "size")) = IF SizeDiffers(downloads[i]) THEN 1 ELSE 0
    /\ Len(warnings) =
         Cardinality({i \in DOMAIN downloads : HashDiffers(downloads[i])})
         + Cardinality({i \in DOMAIN downloads : SizeDiffers(downloads[i])})
    /\ fetch_status = "running" =>
         Cardinality({n \in DOMAIN manifest :
                        is_downloaded(fetch_fn, major_version, n)
                        /\ \E k \in 1 .. fetch_pos : items[k] = n})
           = Len(downloads)

\* C4 witness: an asset failed both tests, two warnings were logged for it,
\* and a later asset was downloaded all the same
C4_Witness ==
  /\ ~ strict
  /\ fetch_status = "verified"
  /\ Len(downloads) >= 2
  /\ HashDiffers(downloads[1]) /\ SizeDiffers(downloads[1])
  /\ Cardinality(WarningsFor(1, "hash")) = 1
  /\ Cardinality(WarningsFor(1, "size")) = 1

\* C21: with strict=True datadir holds exactly what it held at the call (no
\* zip member extracted, the runtime tarball neither created nor truncated
\* nor written) until the loop has passed every item and every asset
\* downloaded has the manifest's digest and size; and a call that has raised
\* ValueError has left datadir as it was.
C21_StrictUsesOnlyVerifiedDownloads ==
  (fetch_status # "idle" /\ strict) =>
    /\ datadir # datadir_before =>
         /\ fetch_status = "verified"
         /\ fetch_pos = Len(items)
         /\ \A d \in Downloaded : ~ HashDiffers(d) /\ ~ SizeDiffers(d)
    /\ fetch_status = "ValueError" => datadir = datadir_before

\* C21 witness: datadir held files, a first asset passed both tests, the
\* second failed one, and the call has raised
C21_Witness ==
  /\ strict
  /\ fetch_status = "ValueError"
  /\ Len(downloads) = 2
  /\ ~ HashDiffers(downloads[1]) /\ ~ SizeDiffers(downloads[1])
  /\ datadir_before # {}
  /\ datadir = datadir_before

(***************************************************************************)
(* The repackaging step of Main.build_bootstrap, and Main.__init__'s       *)
(* reading of SOURCE_DATE_EPOCH.  The step runs twice over the same        *)
(* staging tree, so that the two archives can be compared.                 *)
(***************************************************************************)

\* the staging trees tried; a SYMDIR is a symbolic link to a directory
TreeOfSpecExample ==
  {
    \* 'a'
    [path |-> <<<<"a">>>>, kind |-> "DIR", content |-> ""],
    \* 'a/x.txt'
    [path |-> <<<<"a">>, <<"x", ".", "t", "x", "t">>>>, kind |-> "REG", content |-> "x"],
    \* 'b.txt'
    [path |-> <<<<"b", ".", "t", "x", "t">>>>, kind |-> "REG", content |-> "b"]
  }

TreeWithLinkAndHyphen ==
  {
    \* 'a'
    [path |-> <<<<"a">>>>, kind |-> "DIR", content |-> ""],
    \* 'a/x'
    [path |-> <<<<"a">>, <<"x">>>>, kind |-> "REG", content |-> "x"],
    \* 'a/y'
    [path |-> <<<<"a">>, <<"y">>>>, kind |-> "REG", content |-> "y"],
    \* 'a-b'
    [path |-> <<<<"a", "-", "b">>>>, kind |-> "REG", content |-> "b"],
    \* 'l'
    [path |-> <<<<"l">>>>, kind |-> "SYMDIR", content |-> "a"]
  }

TreeNested ==
  {
    \* 'a'
    [path |-> <<<<"a">>>>, kind |-> "DIR", content |-> ""],
    \* 'a/b'
    [path |-> <<<<"a">>, <<"b">>>>, kind |-> "DIR", content |-> ""],
    \* 'a/b/c'
    [path |-> <<<<"a">>, <<"b">>, <<"c">>>>, kind |-> "REG", content |-> "c"],
    \* 'a.b'
    [path |-> <<<<"a", ".", "b">>>>, kind |-> "REG", content |-> "b"]
  }

StagingTrees == {TreeOfSpecExample, TreeWithLinkAndHyphen, TreeNested}

\* the values of SOURCE_DATE_EPOCH tried, and the environment without it
Environments ==
  { <<>>,
    [v \in {"SOURCE_DATE_EPOCH"} |-> <<"1", "0", "0", "0">>],
    [v \in {"SOURCE_DATE_EPOCH"} |-> <<"0">>],
    [v \in {"SOURCE_DATE_EPOCH"} |-> <<"-", "1">>] }

\* the modification times and the owners a staging tree may have on disk
MTimes == {500, 2000}
Owners == {0, 1000}

\* Main.__init__, lines 178-181
init_reference_timestamp(env) ==
  IF "SOURCE_DATE_EPOCH" \in DOMAIN env
  THEN int(env["SOURCE_DATE_EPOCH"])
  ELSE 0 - 1

\* Main._normalize_tar_entry
normalize_tar_entry(entry, reference) ==
  [entry EXCEPT
     !.uid = 65534,
     !.gid = 65534,
     !.mtime = IF reference # 0 - 1 /\ entry.mtime > reference
               THEN reference ELSE entry.mtime,
     !.uname = "nobody",
     !.gname = "nogroup"]

\* '/'.join(segments)
RECURSIVE join(_)
join(segments) ==
  IF segments = <<>> THEN <<>>
  ELSE IF Len(segments) = 1 THEN segments[1]
  ELSE segments[1] \o <<"/">> \o join(Tail(segments))

\* os.path.relpath(dir_path, bootstrap) for a directory of the tree
relpath(dir) == IF dir = <<>> THEN <<".">> ELSE join(dir)

\* the entry of the list for one name that os.walk gave
collect(rel_dir_path, member) ==
  IF rel_dir_path = <<".">> THEN member
  ELSE rel_dir_path \o <<"/">> \o member

\* what os.walk lists for a directory: its sub-directories (symbolic links
\* to directories among them) and its other entries
Children(tree, dir) == { n \in tree : AllButLast(n.path) = dir }
DirNames(tree, dir) ==
  { n.path[Len(n.path)] : n \in { c \in Children(tree, dir) : c.kind \in {"DIR", "SYMDIR"} } }
FileNames(tree, dir) ==
  { n.path[Len(n.path)] : n \in { c \in Children(tree, dir) : c.kind \notin {"DIR", "SYMDIR"} } }

\* with followlinks=False only real directories are walked into
IsWalkedInto(tree, path) == \E n \in tree : n.path = path /\ n.kind = "DIR"

\* every order os.scandir may list a set of names in
Orders(names) ==
  { f \in [1 .. Cardinality(names) -> names] :
      \A i, j \in 1 .. Cardinality(names) : f[i] = f[j] => i = j }

RECURSIVE map_collect(_, _)
map_collect(rel_dir_path, names) ==
  IF names = <<>> THEN <<>>
  ELSE <<collect(rel_dir_path, Head(names))>> \o map_collect(rel_dir_path, Tail(names))

RECURSIVE subdirs(_, _, _)
subdirs(tree, dir, names) ==
  IF names = <<>> THEN <<>>
  ELSE (IF IsWalkedInto(tree, Append(dir, Head(names)))
        THEN <<Append(dir, Head(names))>> ELSE <<>>)
       \o subdirs(tree, dir, Tail(names))

\* the loop over the members without sorted()
members_in_walk_order(list) == list

\* the loop over sorted(members, reverse=True)
members_in_descending_order(list) ==
  LET up == sorted(list)
  IN [i \in DOMAIN up |-> up[Len(up) + 1 - i]]

\* `for member in sorted(members)`
members_in_order(list) == sorted(list)

\* the TarInfo that tar_writer.add builds from the file on disk, before the
\* filter: name, type and content from the tree, mtime and owner from lstat
gettarinfo(tree, arcname, mtime, owner) ==
  LET n == CHOOSE c \in tree : join(c.path) = arcname
  IN [name |-> arcname,
      kind |-> n.kind,
      content |-> n.content,
      mtime |-> mtime,
      uid |-> owner,
      gid |-> owner,
      uname |-> IF owner = 0 THEN "root" ELSE "user",
      gname |-> IF owner = 0 THEN "root" ELSE "user"]

RepackInit ==
  /\ environ \in Environments
  /\ reference_timestamp = init_reference_timestamp(environ)
  /\ staging \in StagingTrees
  /\ run = 1
  /\ disk_owner \in Owners
  /\ walk_stack = << <<>> >>
  /\ members = <<>>
  /\ to_add = <<>>
  /\ archives = [r \in {1, 2} |-> <<>>]
  /\ statted = [r \in {1, 2} |-> <<>>]
  /\ rp_status = "walking"
  /\ WantIdle
  /\ ExtractIdle
  /\ FetchIdle
  /\ PinIdle
  /\ CompareIdle
  /\ ScoutIdle
  /\ RunIdle
  /\ NetIdle
  /\ ManifestIdle
  /\ InstallIdle

\* one turn of the loop over os.walk: the directory on top of the stack is
\* listed, in whatever order the file system gives its entries, and its
\* names are appended to members; when the walk ends the loop over
\* sorted(members) begins
WalkDir(dirs, files) ==
  /\ rp_status = "walking"
  /\ walk_stack # <<>>
  /\ LET dir_path == Head(walk_stack)
         rel_dir_path == relpath(dir_path)
         stack == subdirs(staging, dir_path, dirs) \o Tail(walk_stack)
         list == members \o map_collect(rel_dir_path, dirs \o files)
     IN /\ walk_stack' = stack
        /\ IF stack = <<>>
           THEN /\ to_add' = members_in_order(list)
                /\ members' = list
                /\ rp_status' = "adding"
           ELSE /\ members' = list
                /\ UNCHANGED <<to_add, rp_status>>
  /\ UNCHANGED <<environ, reference_timestamp, staging, run, disk_owner,
                 archives, statted>>
  /\ UNCHANGED notRepack

\* tar_writer.add(member, arcname=member, recursive=False, filter=...)
AddMember(mtime) ==
  /\ rp_status = "adding"
  /\ to_add # <<>>
  /\ LET member == Head(to_add)
         entry == normalize_tar_entry(
                    gettarinfo(staging, member, mtime, disk_owner),
                    reference_timestamp)
     IN /\ archives' = [archives EXCEPT ![run] = Append(@, entry)]
        /\ statted' = [statted EXCEPT ![run] = Append(@, [name |-> member, mtime |-> mtime])]
  /\ to_add' = Tail(to_add)
  /\ UNCHANGED <<environ, reference_timestamp, staging, run, disk_owner,
                 walk_stack, members, rp_status>>
  /\ UNCHANGED notRepack

\* the archive is closed; the second run starts over the same tree, which
\* may by then belong to another owner
CloseArchive(owner) ==
  /\ rp_status = "adding"
  /\ to_add = <<>>
  /\ IF run = 1
     THEN /\ run' = 2
          /\ disk_owner' = owner
          /\ walk_stack' = << <<>> >>
          /\ members' = <<>>
          /\ rp_status' = "walking"
     ELSE /\ rp_status' = "done"
          /\ disk_owner' = disk_owner
          /\ UNCHANGED <<run, walk_stack, members>>
  /\ UNCHANGED <<environ, reference_timestamp, staging, to_add, archives, statted>>
  /\ UNCHANGED notRepack

\* the orders in which the directory about to be listed may give its names
WalkOrders(which) ==
  IF rp_status = "walking" /\ walk_stack # <<>>
  THEN IF which = "DIRS"
       THEN Orders(DirNames(staging, Head(walk_stack)))
       ELSE Orders(FileNames(staging, Head(walk_stack)))
  ELSE {}

RepackNext ==
  \/ \E dirs \in WalkOrders("DIRS") : \E files \in WalkOrders("FILES") :
       WalkDir(dirs, files)
  \/ \E mtime \in MTimes : AddMember(mtime)
  \/ \E owner \in Owners : CloseArchive(owner)

SpecRepack == RepackInit /\ [][RepackNext]_vars

(***************************************************************************)
(* Properties of the repackaging step                                      *)
(***************************************************************************)

RECURSIVE names_of(_)
names_of(entries) ==
  IF entries = <<>> THEN <<>>
  ELSE <<Head(entries).name>> \o names_of(Tail(entries))

StagingPaths == { join(n.path) : n \in staging }

\* run r has written its whole archive
Closed(r) ==
  \/ r < run
  \/ rp_status = "done"
  \/ r = run /\ rp_status = "adding" /\ to_add = <<>>

\* C7: the repackaging step writes exactly one entry for every directory
\* and every file beneath the staging root, a symbolic link being an entry
\* of its own and nothing beneath it, and the entries stand in strictly
\* ascending lexical order of their relative paths, whatever order os.walk
\* listed them in.
C7_OneEntryEachInAscendingOrder ==
  \A r \in 1 .. run :
    LET a == archives[r]
    IN /\ \A i \in 1 .. Len(a) - 1 : str_lt(a[i].name, a[i + 1].name)
       /\ \A i \in 1 .. Len(a) :
            \E n \in staging : join(n.path) = a[i].name /\ n.kind = a[i].kind
       /\ Closed(r) =>
            /\ Elems(names_of(a)) = StagingPaths
            /\ Len(a) = Cardinality(staging)

\* both archives of the five-entry tree are written, and the second walk
\* gave the names in another order than the sorted one
C7_Witness ==
  /\ rp_status = "done"
  /\ staging = TreeWithLinkAndHyphen
  /\ members # names_of(archives[2])
  /\ Len(archives[1]) = 5
  /\ Len(archives[2]) = 5

min(a, b) == IF a < b THEN a ELSE b

\* C8: every entry of the output archive has uid 65534, gid 65534, uname
\* 'nobody' and gname 'nogroup'; if SOURCE_DATE_EPOCH is set its mtime is
\* the smaller of the mtime on disk and that value, for every integer the
\* variable may hold, and if the variable is absent its mtime is the mtime
\* on disk.
C8_OwnerFixedAndMTimeClamped ==
  \A r \in 1 .. run : \A i \in 1 .. Len(archives[r]) :
    LET e == archives[r][i]
        original_mtime == statted[r][i].mtime
    IN /\ e.uid = 65534
       /\ e.gid = 65534
       /\ e.uname = "nobody"
       /\ e.gname = "nogroup"
       /\ e.mtime = IF "SOURCE_DATE_EPOCH" \in DOMAIN environ
                    THEN min(original_mtime, int(environ["SOURCE_DATE_EPOCH"]))
                    ELSE original_mtime

\* the two runs saw mtimes that are equal except where both exceed the
\* reference timestamp
SameMTimesUpToReference ==
  /\ Len(statted[1]) = Len(statted[2])
  /\ \A i \in 1 .. Len(statted[1]) :
       /\ statted[1][i].name = statted[2][i].name
       /\ \/ statted[1][i].mtime = statted[2][i].mtime
          \/ /\ statted[1][i].mtime > int(environ["SOURCE_DATE_EPOCH"])
             /\ statted[2][i].mtime > int(environ["SOURCE_DATE_EPOCH"])

\* C9: two runs of the repackaging step over the same tree, with the same
\* reference timestamp set and with mtimes on disk that are equal except
\* where both exceed it, write the same sequence of archive entries, even
\* if the owner on disk and the order of the walk differ.
C9_TwoRunsWriteTheSameArchive ==
  (/\ rp_status = "done"
   /\ "SOURCE_DATE_EPOCH" \in DOMAIN environ
   /\ SameMTimesUpToReference)
  => archives[1] = archives[2]

\* entry `below` lies beneath the directory of entry `above`, at any depth
IsBeneath(below, above) ==
  LET b == split(below.name, "/")
      a == split(above.name, "/")
  IN /\ above.kind = "DIR"
     /\ Len(b) > Len(a)
     /\ SubSeq(b, 1, Len(a)) = a

\* C26: in every output archive the entry of a directory stands before the
\* entry of everything beneath it, and every entry that is not at the top
\* of the tree has the entry of its parent directory somewhere before it;
\* for every staging tree, those with a sibling whose name has a character
\* that sorts before '/' among them.
C26_DirectoryBeforeItsContents ==
  \A r \in 1 .. run :
    LET a == archives[r]
    IN /\ \A i, j \in DOMAIN a : IsBeneath(a[j], a[i]) => i < j
       /\ \A j \in DOMAIN a :
            Len(split(a[j].name, "/")) > 1 =>
              \E i \in 1 .. j - 1 :
                /\ IsBeneath(a[j], a[i])
                /\ Len(split(a[i].name, "/")) = Len(split(a[j].name, "/")) - 1

\* C26 witness: the archive of the tree with 'a', 'a-b', 'a/x' is written,
\* 'a-b' stands between the directory and its files, and the walk had not
\* listed the directory first
C26_Witness ==
  /\ rp_status = "done"
  /\ staging = TreeWithLinkAndHyphen
  /\ names_of(archives[2]) =
       << <<"a">>, <<"a", "-", "b">>, <<"a", "/", "x">>, <<"a", "/", "y">>, <<"l">> >>
  /\ members[1] # <<"a">>

(***************************************************************************)
(* PinnedRuntimeVersion.__init__ and RuntimeArchive.pin_version            *)
(***************************************************************************)

MaxVersionLen == 4

\* the characters tried: a digit, the dot, a letter, the space, the line
\* feed (written "LF") and the character or byte 0xE9, which is not ASCII
\* (written "0xE9")
PinAlphabet == {"1", ".", "a", " ", "LF", "0xE9"}

PinInputs == UNION { [1 .. n -> PinAlphabet] : n \in 0 .. MaxVersionLen }

\* the two RuntimeArchive objects of Main
RuntimeArchives == {"scout_archive", "sniper_archive"}

\* str.isdigit() and str.isspace() of one character
isdigit(c) == c \in {"0", "1", "2", "3", "4", "5", "6", "7", "8", "9"}
isspace(c) == c \in {" ", "LF"}

\* bytes.decode('ascii'): the text, or the exception raised
decode_ascii(bytes) ==
  IF \E i \in 1 .. Len(bytes) : bytes[i] = "0xE9"
  THEN [raised |-> "UnicodeDecodeError"]
  ELSE [raised |-> "", text |-> bytes]

\* str.strip()
RECURSIVE lstrip(_)
lstrip(s) == IF s # <<>> /\ isspace(Head(s)) THEN lstrip(Tail(s)) ELSE s

RECURSIVE rstrip(_)
rstrip(s) ==
  IF s # <<>> /\ isspace(s[Len(s)]) THEN rstrip(AllButLast(s)) ELSE s

strip(s) == rstrip(lstrip(s))

\* a constructor that looks at the first character alone
PinnedRuntimeVersion_first_character_only(v, archive) ==
  IF v = <<>> \/ ~isdigit(v[1]) THEN [raised |-> "ValueError"]
  ELSE [raised |-> "", version |-> v, archive |-> archive]

\* PinnedRuntimeVersion.__init__: the object, or the exception raised
PinnedRuntimeVersion(v, archive) ==
  IF v = <<>> \/ ~isdigit(v[1]) THEN [raised |-> "ValueError"]
  ELSE IF \E i \in 1 .. Len(v) : v[i] # "." /\ ~isdigit(v[i])
       THEN [raised |-> "ValueError"]
       ELSE [raised |-> "", version |-> v, archive |-> archive]

PinInit ==
  /\ pin_caller \in {"constructor", "pin_version"}
  /\ pin_input \in PinInputs
  /\ pin_owner \in RuntimeArchives
  /\ pins = {}
  /\ pin_status = "ready"
  /\ WantIdle
  /\ ExtractIdle
  /\ FetchIdle
  /\ RepackIdle
  /\ CompareIdle
  /\ ScoutIdle
  /\ RunIdle
  /\ NetIdle
  /\ ManifestIdle
  /\ InstallIdle

\* PinnedRuntimeVersion(v, archive), called on its own
Construct ==
  /\ pin_status = "ready"
  /\ pin_caller = "constructor"
  /\ LET pin == PinnedRuntimeVersion(pin_input, pin_owner)
     IN IF pin.raised = ""
        THEN /\ pins' = pins \cup {[version |-> pin.version, archive |-> pin.archive]}
             /\ pin_status' = "pinned"
        ELSE /\ pin_status' = pin.raised
             /\ UNCHANGED pins
  /\ UNCHANGED <<pin_caller, pin_input, pin_owner>>
  /\ UNCHANGED notPin

\* RuntimeArchive.pin_version when VERSION.txt could be opened
PinVersion ==
  /\ pin_status = "ready"
  /\ pin_caller = "pin_version"
  /\ LET decoded == decode_ascii(pin_input)
     IN IF decoded.raised # ""
        THEN /\ pin_status' = decoded.raised
             /\ UNCHANGED pins
        ELSE LET pin == PinnedRuntimeVersion(strip(decoded.text), pin_owner)
             IN IF pin.raised = ""
                THEN /\ pins' = pins \cup {[version |-> pin.version, archive |-> pin.archive]}
                     /\ pin_status' = "pinned"
                ELSE /\ pin_status' = pin.raised
                     /\ UNCHANGED pins
  /\ UNCHANGED <<pin_caller, pin_input, pin_owner>>
  /\ UNCHANGED notPin

\* RuntimeArchive.open re-raises the URLError of the opener
OpenFails ==
  /\ pin_status = "ready"
  /\ pin_caller = "pin_version"
  /\ pin_status' = "URLError"
  /\ UNCHANGED <<pin_caller, pin_input, pin_owner, pins>>
  /\ UNCHANGED notPin

PinNext == Construct \/ PinVersion \/ OpenFails

SpecPin == PinInit /\ [][PinNext]_vars

\* the invariant of a pinned version: not empty, a digit first, digits and
\* dots throughout
IsPinnedVersion(v) ==
  /\ Len(v) > 0
  /\ isdigit(v[1])
  /\ \A i \in 1 .. Len(v) : isdigit(v[i]) \/ v[i] = "."

\* text without the white space around it: the stretch of text that
\* neither starts nor ends with white space and has only white space
\* before and after it
WithoutSurroundingSpace(text) ==
  { SubSeq(text, i, j) : <<i, j>> \in
      { ij \in (1 .. Len(text) + 1) \X (0 .. Len(text)) :
          /\ ij[1] <= ij[2] + 1
          /\ \A k \in 1 .. Len(text) : (k < ij[1] \/ k > ij[2]) => isspace(text[k])
          /\ ij[1] <= ij[2] => ~isspace(text[ij[1]]) /\ ~isspace(text[ij[2]]) } }

\* C10: constructing a PinnedRuntimeVersion succeeds exactly when the
\* string is not empty, starts with a digit and holds digits and dots only;
\* otherwise ValueError is raised and no pin exists.  pin_version constructs
\* from the ASCII-decoded, stripped content of VERSION.txt, so every pin it
\* returns has a valid version and belongs to the archive that was asked.
C10_PinExistsIffVersionIsValid ==
  /\ pin_status = "ready" => pins = {}
  /\ \A p \in pins : IsPinnedVersion(p.version) /\ p.archive = pin_owner
  /\ (pin_caller = "constructor" /\ pin_status # "ready") =>
       IF IsPinnedVersion(pin_input)
       THEN /\ pin_status = "pinned"
            /\ pins = {[version |-> pin_input, archive |-> pin_owner]}
       ELSE /\ pin_status = "ValueError"
            /\ pins = {}
  /\ (pin_caller = "pin_version" /\ pin_status \notin {"ready", "URLError"}) =>
       IF \E v \in WithoutSurroundingSpace(pin_input) : IsPinnedVersion(v)
       THEN /\ pin_status = "pinned"
            /\ \E v \in WithoutSurroundingSpace(pin_input) :
                 pins = {[version |-> v, archive |-> pin_owner]}
       ELSE /\ pin_status \in {"ValueError", "UnicodeDecodeError"}
            /\ pins = {}
  /\ pin_status = "URLError" => pins = {}

\* pin_version returned a pin for a VERSION.txt that ends in a line feed
C10_Witness ==
  /\ pin_status = "pinned"
  /\ pin_caller = "pin_version"
  /\ pin_input = <<"1", ".", "1", "LF">>
  /\ pins = {[version |-> <<"1", ".", "1">>, archive |-> pin_owner]}

(***************************************************************************)
(* PinnedRuntimeVersion.__eq__, __lt__, __le__, __gt__ and __ge__          *)
(***************************************************************************)

\* the version strings compared: "1", "1.1", "10" and "9"
CompareVersions ==
  { <<"1">>, <<"1", ".", "1">>, <<"1", "0">>, <<"9">> }

\* the pins that exist: every one of them was constructed
PinObjects ==
  { [cls |-> "PinnedRuntimeVersion", version |-> v, archive |-> a] :
      v \in { w \in CompareVersions : PinnedRuntimeVersion(w, "scout_archive").raised = "" },
      a \in RuntimeArchives }

\* an object of another class: the str '1.1'
OtherObjects == { [cls |-> "str", version |-> <<"1", ".", "1">>, archive |-> "none"] }

isinstance(obj, cls) == obj.cls = cls

Bool(b) == IF b THEN "True" ELSE "False"

\* PinnedRuntimeVersion.__eq__
pin_eq(self, other) ==
  Bool(/\ isinstance(other, "PinnedRuntimeVersion")
       /\ self.version = other.version
       /\ self.archive = other.archive)

\* __lt__ without the test of the archives
pin_lt_any_archive(self, other) ==
  IF ~isinstance(other, "PinnedRuntimeVersion") THEN "TypeError"
  ELSE Bool(str_lt(self.version, other.version))

\* __lt__ that takes the longer version string for the later one
pin_lt_longer_is_later(self, other) ==
  IF ~isinstance(other, "PinnedRuntimeVersion") THEN "TypeError"
  ELSE IF self.archive # other.archive THEN "TypeError"
  ELSE Bool(\/ Len(self.version) < Len(other.version)
            \/ /\ Len(self.version) = Len(other.version)
               /\ str_lt(self.version, other.version))

\* PinnedRuntimeVersion.__lt__
pin_lt(self, other) ==
  IF ~isinstance(other, "PinnedRuntimeVersion") THEN "TypeError"
  ELSE IF self.archive # other.archive THEN "TypeError"
  ELSE Bool(str_lt(self.version, other.version))

\* PinnedRuntimeVersion.__le__
pin_le(self, other) ==
  IF ~isinstance(other, "PinnedRuntimeVersion") THEN "TypeError"
  ELSE IF pin_eq(self, other) = "True" THEN "True"
  ELSE pin_lt(self, other)

\* PinnedRuntimeVersion.__gt__
pin_gt(self, other) ==
  IF ~isinstance(other, "PinnedRuntimeVersion") THEN "TypeError"
  ELSE pin_lt(other, self)

\* PinnedRuntimeVersion.__ge__
pin_ge(self, other) ==
  IF ~isinstance(other, "PinnedRuntimeVersion") THEN "TypeError"
  ELSE IF pin_eq(self, other) = "True" THEN "True"
  ELSE pin_lt(other, self)

CompareInit ==
  /\ cmp_left \in PinObjects
  /\ cmp_right \in PinObjects \cup OtherObjects
  /\ cmp_op \in {"==", "<", "<=", ">", ">="}
  /\ cmp_result = "pending"
  /\ WantIdle
  /\ ExtractIdle
  /\ FetchIdle
  /\ RepackIdle
  /\ PinIdle
  /\ ScoutIdle
  /\ RunIdle
  /\ NetIdle
  /\ ManifestIdle
  /\ InstallIdle

CompareFrame == UNCHANGED <<cmp_left, cmp_right, cmp_op>> /\ UNCHANGED notCompare

Eq == cmp_result = "pending" /\ cmp_op = "==" /\ cmp_result' = pin_eq(cmp_left, cmp_right) /\ CompareFrame
Lt == cmp_result = "pending" /\ cmp_op = "<" /\ cmp_result' = pin_lt(cmp_left, cmp_right) /\ CompareFrame
Le == cmp_result = "pending" /\ cmp_op = "<=" /\ cmp_result' = pin_le(cmp_left, cmp_right) /\ CompareFrame
Gt == cmp_result = "pending" /\ cmp_op = ">" /\ cmp_result' = pin_gt(cmp_left, cmp_right) /\ CompareFrame
Ge == cmp_result = "pending" /\ cmp_op = ">=" /\ cmp_result' = pin_ge(cmp_left, cmp_right) /\ CompareFrame

CompareNext == Eq \/ Lt \/ Le \/ Gt \/ Ge

SpecCompare == CompareInit /\ [][CompareNext]_vars

\* two pins of different archives have been compared
ComparedAcrossArchives ==
  /\ cmp_result \notin {"idle", "pending"}
  /\ isinstance(cmp_right, "PinnedRuntimeVersion")
  /\ cmp_left.archive # cmp_right.archive

ComparedWithinArchive ==
  /\ cmp_result \notin {"idle", "pending"}
  /\ isinstance(cmp_right, "PinnedRuntimeVersion")
  /\ cmp_left.archive = cmp_right.archive

\* a precedes b in character-by-character order: at the first position
\* where they differ a has the character of the lower code point, or a has
\* ended there
Precedes(a, b) ==
  \E k \in 1 .. Len(b) :
    /\ \A i \in 1 .. k - 1 : i <= Len(a) /\ a[i] = b[i]
    /\ \/ k = Len(a) + 1
       \/ k <= Len(a) /\ ord(a[k]) < ord(b[k])

\* what an operator gives for two pins, by the operator's method
Compare(op, a, b) ==
  IF op = "==" THEN pin_eq(a, b)
  ELSE IF op = "<" THEN pin_lt(a, b)
  ELSE IF op = "<=" THEN pin_le(a, b)
  ELSE IF op = ">" THEN pin_gt(a, b)
  ELSE pin_ge(a, b)

\* C25: for two pins a and b of one archive, a < b is true exactly when
\* a.version precedes b.version in character-by-character string order, a > b
\* exactly when b.version precedes a.version, a == b exactly when the strings
\* are equal, a <= b and a >= b exactly when the strings are equal or the
\* one precedes the other; and exactly one of a < b, a == b, a > b is true.
C25_OrderIsPlainStringOrder ==
  ComparedWithinArchive =>
    LET a == cmp_left.version
        b == cmp_right.version
    IN /\ cmp_op = "<" => cmp_result = Bool(Precedes(a, b))
       /\ cmp_op = ">" => cmp_result = Bool(Precedes(b, a))
       /\ cmp_op = "==" => cmp_result = Bool(a = b)
       /\ cmp_op = "<=" => cmp_result = Bool(a = b \/ Precedes(a, b))
       /\ cmp_op = ">=" => cmp_result = Bool(a = b \/ Precedes(b, a))
       /\ Cardinality({ op \in {"<", "==", ">"} :
                          Compare(op, cmp_left, cmp_right) = "True" }) = 1

\* C25 witness: '10' < '9' was evaluated for two pins of one archive, and
\* is true
C25_Witness ==
  /\ ComparedWithinArchive
  /\ cmp_op = "<"
  /\ cmp_left.version = <<"1", "0">>
  /\ cmp_right.version = <<"9">>
  /\ cmp_result = "True"

(***************************************************************************)
(* SteamClient.extract_scout                                               *)
(***************************************************************************)

MaxScoutMembers == 2

\* the members a runtime tarball may hold; name is the part of the member's
\* name after 'steam-runtime/'
ScoutMembers ==
  {
    \* 'steam-runtime_0.1\n'
    [name |-> "version.txt", kind |-> "REG", content |-> <<"s", "t", "e", "a", "m", "-", "r", "u", "n", "t", "i", "m", "e", "_", "0", ".", "1", "LF">>],
    \* 'steam-runtime_1_2'
    [name |-> "version.txt", kind |-> "REG", content |-> <<"s", "t", "e", "a", "m", "-", "r", "u", "n", "t", "i", "m", "e", "_", "1", "_", "2">>],
    \* 'steam-runtime_'
    [name |-> "version.txt", kind |-> "REG", content |-> <<"s", "t", "e", "a", "m", "-", "r", "u", "n", "t", "i", "m", "e", "_">>],
    \* 'garbage'
    [name |-> "version.txt", kind |-> "REG", content |-> <<"g", "a", "r", "b", "a", "g", "e">>],
    \* ''
    [name |-> "version.txt", kind |-> "REG", content |-> <<>>],
    \* a symbolic link named version.txt
    [name |-> "version.txt", kind |-> "SYM", content |-> <<"s", "t", "e", "a", "m", "-", "r", "u", "n", "t", "i", "m", "e", "_", "0", ".", "1">>],
    \* the manifest
    [name |-> "manifest.deb822.gz", kind |-> "REG", content |-> <<"m">>],
    \* the manifest as text
    [name |-> "manifest.txt", kind |-> "REG", content |-> <<"t">>],
    \* any other file
    [name |-> "x", kind |-> "REG", content |-> <<"x">>]
  }

ScoutTarballs == UNION { [1 .. n -> ScoutMembers] : n \in 0 .. MaxScoutMembers }

\* the tests of the loop: is the member extracted to destdir?
scout_extracts(info, with_manifest) ==
  /\ info.kind = "REG"
  /\ \/ info.name = "version.txt"
     \/ /\ with_manifest
        /\ info.name \in {"built-using.txt", "manifest.deb822.gz", "manifest.txt"}

\* the `with suppress(FileNotFoundError), open(...)` block: marker is
\* assigned when the file exists and is left unbound when it does not
read_marker(files) ==
  IF "version.txt" \in DOMAIN files
  THEN [bound |-> TRUE, marker |-> strip(files["version.txt"])]
  ELSE [bound |-> FALSE]

ScoutInit ==
  /\ scout_tarball \in ScoutTarballs
  /\ extract_manifest \in BOOLEAN
  /\ scout_pos = 0
  /\ destdir = <<>>
  /\ have_scout_manifest = FALSE
  /\ scout_version_marker = None
  /\ scout_version = None
  /\ scout_warnings = 0
  /\ scout_status = "reading"
  /\ WantIdle
  /\ ExtractIdle
  /\ FetchIdle
  /\ RepackIdle
  /\ PinIdle
  /\ CompareIdle
  /\ RunIdle
  /\ NetIdle
  /\ ManifestIdle
  /\ InstallIdle

\* one turn of `for info in tar_reader`
ScoutMember ==
  /\ scout_status = "reading"
  /\ scout_pos < Len(scout_tarball)
  /\ LET info == scout_tarball[scout_pos + 1]
     IN IF scout_extracts(info, extract_manifest)
        THEN /\ destdir' = [n \in DOMAIN destdir \cup {info.name} |->
                              IF n = info.name THEN info.content ELSE destdir[n]]
             /\ have_scout_manifest' =
                  (have_scout_manifest \/ info.name = "manifest.deb822.gz")
        ELSE UNCHANGED <<destdir, have_scout_manifest>>
  /\ scout_pos' = scout_pos + 1
  /\ UNCHANGED <<scout_tarball, extract_manifest, scout_version_marker,
                 scout_version, scout_warnings, scout_status>>
  /\ UNCHANGED notScout

\* the rest of extract_scout, after the loop
ScoutVersion ==
  /\ scout_status = "reading"
  /\ scout_pos = Len(scout_tarball)
  /\ LET read == read_marker(destdir)
     IN IF ~read.bound
        THEN /\ scout_status' = "UnboundLocalError"
             /\ UNCHANGED <<scout_version_marker, scout_version, scout_warnings>>
        ELSE LET version_bits == split(read.marker, "_")
             IN /\ scout_version_marker' = read.marker
                /\ scout_status' = "returned"
                /\ IF Len(version_bits) # 2 \/ version_bits[1] # STEAM_RUNTIME
                   THEN /\ scout_warnings' = scout_warnings + 1
                        /\ UNCHANGED scout_version
                   ELSE /\ scout_version' = version_bits[Len(version_bits)]
                        /\ UNCHANGED scout_warnings
  /\ UNCHANGED <<scout_tarball, extract_manifest, scout_pos, destdir,
                 have_scout_manifest>>
  /\ UNCHANGED notScout

ScoutNext == ScoutMember \/ ScoutVersion

SpecScout == ScoutInit /\ [][ScoutNext]_vars

\* the last regular file named steam-runtime/version.txt in the tarball,
\* if there is one
MarkerMembers ==
  { i \in 1 .. Len(scout_tarball) :
      scout_tarball[i].name = "version.txt" /\ scout_tarball[i].kind = "REG" }

LastMarker ==
  scout_tarball[CHOOSE i \in MarkerMembers : \A j \in MarkerMembers : j <= i].content

\* marker is 'steam-runtime_' and a version without underscore, white
\* space around it aside
HasMarkerForm(content, version) ==
  /\ \A k \in 1 .. Len(version) : version[k] # "_"
  /\ STEAM_RUNTIME \o <<"_">> \o version \in WithoutSurroundingSpace(content)

\* C12: extract_scout completes without raising for every readable runtime
\* tarball: if it holds no version.txt, scout_version stays None; if the
\* marker is not 'steam-runtime_<version>' with one underscore, a warning is
\* logged and scout_version stays None; if it is, scout_version is <version>.
C12_CompletesWithOrWithoutMarker ==
  scout_status # "reading" =>
    /\ scout_status = "returned"
    /\ IF MarkerMembers = {}
       THEN scout_version = None /\ scout_warnings = 0
       ELSE IF \E i \in 1 .. Len(LastMarker) + 1 : \E j \in 0 .. Len(LastMarker) :
                 HasMarkerForm(LastMarker, SubSeq(LastMarker, i, j))
            THEN /\ HasMarkerForm(LastMarker, scout_version)
                 /\ scout_warnings = 0
            ELSE /\ scout_version = None
                 /\ scout_warnings = 1

(***************************************************************************)
(* Main.run, the methods it calls, and main()                              *)
(***************************************************************************)

\* the directory --client-dir names, and the URI --client-tarball-uri names
PREDOWNLOADED == <<"p", "r", "e">>
TARBALL_URI == <<"u", "r", "i">>

\* the command lines tried
CommandLines ==
  [client_dir : {None, PREDOWNLOADED},
   client_tarball_uri : {None, TARBALL_URI},
   runtime_version : {<<>>, <<"0", ".", "1">>}]

\* what is served: complete - the client has steam.sh and ubuntu12_32/steam;
\* assets_match - the assets have the hash and size the manifest gives;
\* has_marker - the runtime has steam-runtime/version.txt; runtime - how the
\* client embeds the runtime: as a whole asset, in parts, or not at all
Remotes ==
  [complete : BOOLEAN, assets_match : BOOLEAN, has_marker : BOOLEAN,
   runtime : {"whole", "parts", "none"}]

\* what the server may send for VERSION.txt: '0.2\n', '', '\n', 'x\n',
\* '1/2', ' 3 ', and a byte that is no UTF-8
VersionTxts ==
  { <<"0", ".", "2", "LF">>, <<>>, <<"LF">>, <<"x", "LF">>,
    <<"1", "/", "2">>, <<" ", "3", " ">>, <<"0xE9">> }

\* the version of the runtime a client embeds, as extract_scout reads it
EMBEDDED_VERSION == <<"0", ".", "0">>

\* bytes.decode('utf-8'): the text, or the exception raised
decode_utf8(bytes) ==
  IF \E i \in 1 .. Len(bytes) : bytes[i] = "0xE9"
  THEN [raised |-> "UnicodeDecodeError"]
  ELSE [raised |-> "", text |-> bytes]

\* ensure_scout_tarball, line 273: response.read().strip().decode('utf-8')
read_resolved_runtime(bytes) == decode_utf8(strip(bytes))

\* the stages of the pipeline in the order of Main.run's statements:
\* SteamClient.download_manifest; the rest of Main.download_client;
\* Main.ensure_scout_tarball; the extraction loop of build_bootstrap; its
\* repackaging step; the writing of client-versions.json
STAGES ==
  <<"resolve manifest", "fetch assets", "resolve runtime pin",
    "extract and filter", "repackage", "emit metadata">>

Stage(name, ended) == [stage |-> name, ended |-> ended]

\* Main.__init__, line 162
init_client_dir(arg) == None

RunInit ==
  /\ args \in CommandLines
  /\ client_dir = init_client_dir(args.client_dir)
  /\ remote \in Remotes
  /\ runtime_tarball = "absent"
  /\ calls = <<>>
  /\ built_from = None
  /\ dest_archive = "old"
  /\ dest_metadata = "old"
  /\ run_pc = "run"
  /\ raised = "none"
  /\ exit_status = "none"
  /\ version_txt \in IF args.runtime_version # <<>> THEN VersionTxts ELSE {<<>>}
  /\ resolved_runtime = None
  /\ tarball_ops = <<>>
  /\ metadata = <<>>
  /\ stages = <<>>
  /\ tmpdir = [exists |-> FALSE, files |-> {}]
  /\ WantIdle
  /\ ExtractIdle
  /\ FetchIdle
  /\ RepackIdle
  /\ PinIdle
  /\ CompareIdle
  /\ ScoutIdle
  /\ NetIdle
  /\ ManifestIdle
  /\ InstallIdle

\* an exception that is recorded while run stays at the statement
RunRaise_and_go_on(e) == raised' = e /\ UNCHANGED run_pc

\* an exception leaves the statement, and with it Main.run
RunRaise(e) == run_pc' = "raised" /\ raised' = e

\* the with block of Main.run is left by an exception
LeaveWith == tmpdir' = TemporaryDirectory_exit(tmpdir, TRUE)

\* Main.run down to the choice of client_dir
RunStart ==
  /\ run_pc = "run"
  /\ tmpdir' = [exists |-> TRUE, files |-> {}]
  /\ IF client_dir # None
     THEN \* the directory named holds the client as it is
          /\ run_pc' = "build_bootstrap"
          /\ runtime_tarball' = IF remote.runtime = "none" THEN "absent" ELSE "valid"
     ELSE /\ run_pc' = "download_client"
          /\ UNCHANGED runtime_tarball
  /\ UNCHANGED <<args, client_dir, remote, calls, built_from,
                 dest_archive, dest_metadata, raised, exit_status,
                 version_txt, resolved_runtime, tarball_ops, metadata, stages>>
  /\ UNCHANGED notRun

\* Main.download_client with --client-tarball-uri
DownloadClientTarball ==
  /\ run_pc = "download_client"
  /\ args.client_tarball_uri # None
  /\ calls' = Append(calls, "download_client")
  /\ runtime_tarball' = IF remote.runtime = "none" THEN "absent" ELSE "valid"
  /\ IF ~remote.complete
     THEN /\ RunRaise("AssertionError")
          /\ stages' = Append(stages, Stage("fetch assets", "failed"))
          /\ LeaveWith
     ELSE /\ run_pc' = "ensure_scout_tarball" /\ UNCHANGED raised
          /\ stages' = Append(stages, Stage("fetch assets", "ok"))
          /\ tmpdir' = [tmpdir EXCEPT !.files = @ \cup {"client", "client.tar.gz"}]
  /\ UNCHANGED <<args, client_dir, remote, built_from, dest_archive,
                 dest_metadata, exit_status, version_txt, resolved_runtime,
                 tarball_ops, metadata>>
  /\ UNCHANGED notRun

\* Main.download_client from the manifest: SteamClient.download_manifest,
\* download_client, download_scout and extract_scout, then the assertions
DownloadClientManifest ==
  /\ run_pc = "download_client"
  /\ args.client_tarball_uri = None
  /\ calls' = Append(calls, "download_client")
  /\ IF ~remote.assets_match
     THEN RunRaise("ValueError") /\ UNCHANGED runtime_tarball
     ELSE \* download_runtime opens steam-runtime.tar.xz for writing before it
          \* looks for the runtime among the assets
          /\ runtime_tarball' = IF remote.runtime = "none" THEN "empty" ELSE "valid"
          /\ IF remote.runtime = "none" THEN RunRaise("ReadError")
             ELSE IF ~remote.has_marker THEN RunRaise("UnboundLocalError")
             ELSE IF ~remote.complete THEN RunRaise("AssertionError")
             ELSE run_pc' = "ensure_scout_tarball" /\ UNCHANGED raised
  /\ LET ok == /\ remote.assets_match /\ remote.runtime # "none"
               /\ remote.has_marker /\ remote.complete
     IN /\ stages' = stages \o <<Stage("resolve manifest", "ok"),
                                Stage("fetch assets", IF ok THEN "ok" ELSE "failed")>>
        /\ IF ok
           THEN tmpdir' = [tmpdir EXCEPT !.files = @ \cup {"client", "manifest.vdf", "steam-runtime"}]
           ELSE LeaveWith
        \* lines 235-236 follow extract_scout and precede the assertions
        /\ resolved_runtime' =
             IF remote.assets_match /\ remote.runtime # "none" /\ remote.has_marker
             THEN EMBEDDED_VERSION ELSE resolved_runtime
  /\ UNCHANGED <<args, client_dir, remote, built_from, dest_archive,
                 dest_metadata, exit_status, version_txt, tarball_ops, metadata>>
  /\ UNCHANGED notRun

\* the first request of the step the run is at meets a transport failure:
\* the client tarball or the manifest, or VERSION.txt
RunTransportFails ==
  /\ \/ run_pc = "download_client"
     \/ run_pc = "ensure_scout_tarball" /\ args.runtime_version # <<>>
  /\ calls' = Append(calls, run_pc)
  /\ RunRaise("URLError")
  /\ stages' = Append(stages,
                      Stage(IF run_pc = "ensure_scout_tarball" THEN "resolve runtime pin"
                            ELSE IF args.client_tarball_uri # None THEN "fetch assets"
                            ELSE "resolve manifest",
                            "failed"))
  /\ LeaveWith
  /\ UNCHANGED <<args, client_dir, remote, runtime_tarball, built_from,
                 dest_archive, dest_metadata, exit_status, version_txt,
                 resolved_runtime, tarball_ops, metadata>>
  /\ UNCHANGED notRun

\* an asset of the manifest meets a transport failure
RunAssetTransportFails ==
  /\ run_pc = "download_client"
  /\ args.client_tarball_uri = None
  /\ calls' = Append(calls, run_pc)
  /\ RunRaise("URLError")
  /\ stages' = stages \o <<Stage("resolve manifest", "ok"),
                           Stage("fetch assets", "failed")>>
  /\ LeaveWith
  /\ UNCHANGED <<args, client_dir, remote, runtime_tarball, built_from,
                 dest_archive, dest_metadata, exit_status, version_txt,
                 resolved_runtime, tarball_ops, metadata>>
  /\ UNCHANGED notRun

\* Main.ensure_scout_tarball; served tells whether the server has a
\* steam-runtime.tar.xz at the URI made from the text of VERSION.txt
EnsureScoutTarball(served) ==
  /\ run_pc = "ensure_scout_tarball"
  /\ args.runtime_version = <<>> => served
  /\ calls' = Append(calls, "ensure_scout_tarball")
  /\ IF args.runtime_version = <<>>
     THEN /\ IF runtime_tarball = "absent"
             THEN /\ RunRaise("InvocationError")
                  /\ stages' = Append(stages, Stage("resolve runtime pin", "failed"))
                  /\ LeaveWith
             ELSE /\ run_pc' = "build_bootstrap" /\ UNCHANGED raised
                  /\ stages' = Append(stages, Stage("resolve runtime pin", "ok"))
                  /\ UNCHANGED tmpdir
          /\ UNCHANGED <<runtime_tarball, resolved_runtime, tarball_ops>>
     ELSE LET read == read_resolved_runtime(version_txt)
          IN IF read.raised # ""
             THEN /\ RunRaise(read.raised)
                  /\ stages' = Append(stages, Stage("resolve runtime pin", "failed"))
                  /\ LeaveWith
                  /\ UNCHANGED <<runtime_tarball, resolved_runtime, tarball_ops>>
             ELSE /\ resolved_runtime' = read.text
                  \* the tarball the client came with is removed, then the
                  \* one of the resolved version is fetched
                  /\ tarball_ops' =
                       (IF runtime_tarball # "absent" THEN <<"remove">> ELSE <<>>)
                       \o (IF served THEN <<"fetch">> ELSE <<>>)
                  /\ runtime_tarball' = IF served THEN "valid" ELSE "absent"
                  /\ IF served
                     THEN /\ run_pc' = "build_bootstrap" /\ UNCHANGED raised
                          /\ stages' = Append(stages, Stage("resolve runtime pin", "ok"))
                          /\ UNCHANGED tmpdir
                     ELSE /\ RunRaise("URLError")
                          /\ stages' = Append(stages, Stage("resolve runtime pin", "failed"))
                          /\ LeaveWith
  /\ UNCHANGED <<args, client_dir, remote, built_from, dest_archive,
                 dest_metadata, exit_status, version_txt, metadata>>
  /\ UNCHANGED notRun

\* Main.build_bootstrap down to the end of the extraction loop
BuildBootstrap ==
  /\ run_pc = "build_bootstrap"
  /\ calls' = Append(calls, "build_bootstrap")
  /\ built_from' = IF client_dir # None THEN client_dir ELSE <<"c", "l", "i", "e", "n", "t">>
  /\ IF runtime_tarball \in {"absent", "empty"}
     THEN /\ RunRaise(IF runtime_tarball = "absent" THEN "FileNotFoundError"
                      ELSE "ReadError")
          /\ stages' = Append(stages, Stage("extract and filter", "failed"))
          /\ LeaveWith
     ELSE /\ run_pc' = "open_archive" /\ UNCHANGED raised
          /\ stages' = Append(stages, Stage("extract and filter", "ok"))
          /\ tmpdir' = [tmpdir EXCEPT !.files = @ \cup {"bootstrap"}]
  /\ UNCHANGED <<args, client_dir, remote, runtime_tarball, dest_archive,
                 dest_metadata, exit_status, version_txt, resolved_runtime,
                 tarball_ops, metadata>>
  /\ UNCHANGED notRun

\* a file to install is missing, or a member of the runtime is rejected
BuildBootstrapFails(e) ==
  /\ run_pc = "build_bootstrap"
  /\ calls' = Append(calls, "build_bootstrap")
  /\ built_from' = IF client_dir # None THEN client_dir ELSE <<"c", "l", "i", "e", "n", "t">>
  /\ RunRaise(e)
  /\ stages' = Append(stages, Stage("extract and filter", "failed"))
  /\ LeaveWith
  /\ UNCHANGED <<args, client_dir, remote, runtime_tarball,
                 dest_archive, dest_metadata, exit_status, version_txt,
                 resolved_runtime, tarball_ops, metadata>>
  /\ UNCHANGED notRun

\* tarfile.open(destination/bootstraplinux_ubuntu12_32.tar.xz, mode='w|xz')
OpenArchive ==
  /\ run_pc = "open_archive"
  /\ dest_archive' = "partial"
  /\ run_pc' = "add_members"
  /\ stages' = Append(stages, Stage("repackage", "running"))
  /\ UNCHANGED <<args, client_dir, remote, runtime_tarball, calls, built_from,
                 dest_metadata, raised, exit_status, version_txt,
                 resolved_runtime, tarball_ops, metadata, tmpdir>>
  /\ UNCHANGED notRun

\* the walk and the loop over sorted(members), the end of the with block of
\* the archive, and with the return of build_bootstrap the end of the with
\* block of Main.run
AddMembers ==
  /\ run_pc = "add_members"
  /\ dest_archive' = "new"
  /\ run_pc' = "write_metadata"
  /\ stages' = [stages EXCEPT ![Len(stages)].ended = "ok"]
  /\ tmpdir' = TemporaryDirectory_exit(tmpdir, FALSE)
  /\ UNCHANGED <<args, client_dir, remote, runtime_tarball, calls, built_from,
                 dest_metadata, raised, exit_status, version_txt,
                 resolved_runtime, tarball_ops, metadata>>
  /\ UNCHANGED notRun

\* tar_writer.add raises for a member: the with block closes the archive
\* as far as it was written and the exception leaves run
AddMembersFails ==
  /\ run_pc = "add_members"
  /\ RunRaise("OSError")
  /\ stages' = [stages EXCEPT ![Len(stages)].ended = "failed"]
  /\ LeaveWith
  /\ UNCHANGED <<args, client_dir, remote, runtime_tarball, calls, built_from,
                 dest_archive, dest_metadata, exit_status, version_txt,
                 resolved_runtime, tarball_ops, metadata>>
  /\ UNCHANGED notRun

\* the end of Main.run: client-versions.json is opened for writing and
\* written
WriteMetadata ==
  /\ run_pc = "write_metadata"
  /\ dest_metadata' = "new"
  /\ metadata' = <<resolved_runtime>>
  /\ run_pc' = "returned"
  /\ stages' = Append(stages, Stage("emit metadata", "ok"))
  /\ UNCHANGED <<args, client_dir, remote, runtime_tarball, calls, built_from,
                 dest_archive, raised, exit_status, version_txt,
                 resolved_runtime, tarball_ops, tmpdir>>
  /\ UNCHANGED notRun

\* open() raises for client-versions.json (opened = FALSE), or the write
\* raises after the file was opened and truncated (opened = TRUE)
WriteMetadataFails(opened) ==
  /\ run_pc = "write_metadata"
  /\ dest_metadata' = IF opened THEN "partial" ELSE dest_metadata
  /\ RunRaise("OSError")
  /\ stages' = Append(stages, Stage("emit metadata", "failed"))
  /\ UNCHANGED <<args, client_dir, remote, runtime_tarball, calls, built_from,
                 dest_archive, exit_status, version_txt, resolved_runtime,
                 tarball_ops, metadata, tmpdir>>
  /\ UNCHANGED notRun

\* main(): InvocationError becomes parser.error, any other exception a
\* traceback
MainEnds ==
  /\ run_pc \in {"returned", "raised"}
  /\ exit_status = "none"
  /\ exit_status' = IF run_pc = "returned" THEN "success"
                    ELSE IF raised = "InvocationError" THEN "usage error"
                    ELSE "traceback"
  /\ UNCHANGED <<args, client_dir, remote, runtime_tarball, calls, built_from,
                 dest_archive, dest_metadata, run_pc, raised, version_txt,
                 resolved_runtime, tarball_ops, metadata, stages, tmpdir>>
  /\ UNCHANGED notRun

RunNext ==
  \/ RunStart
  \/ DownloadClientTarball
  \/ DownloadClientManifest
  \/ RunTransportFails
  \/ RunAssetTransportFails
  \/ \E served \in BOOLEAN : EnsureScoutTarball(served)
  \/ BuildBootstrap
  \/ \E e \in {"RuntimeError", "ValueError"} : BuildBootstrapFails(e)
  \/ OpenArchive
  \/ AddMembers
  \/ AddMembersFails
  \/ WriteMetadata
  \/ \E opened \in BOOLEAN : WriteMetadataFails(opened)
  \/ MainEnds

SpecRun == RunInit /\ [][RunNext]_vars

RunEnded == exit_status # "none"

Called(method) == \E i \in 1 .. Len(calls) : calls[i] = method

\* C13: when the client obtained holds no Steam Runtime tarball and
\* --runtime-version is empty, the run ends with InvocationError, reported
\* by main() as a usage error, and neither archive nor metadata is written;
\* on both download paths, the tarball and the manifest.
C13_NoRuntimeIsUsageError ==
  (/\ RunEnded
   /\ Called("download_client")
   /\ raised \notin {"URLError", "ValueError", "AssertionError"}
   /\ remote.complete
   /\ remote.runtime = "none"
   /\ args.runtime_version = <<>>)
  => /\ raised = "InvocationError"
     /\ exit_status = "usage error"
     /\ dest_archive = "old"
     /\ dest_metadata = "old"

\* C14: at the end of every run, whether it succeeded or failed at any
\* step, the destination holds either both a newly written archive and a
\* newly written client-versions.json or neither of them; no partly written
\* archive is kept.
C14_BothOutputsOrNeither ==
  RunEnded =>
    \/ dest_archive = "new" /\ dest_metadata = "new"
    \/ dest_archive = "old" /\ dest_metadata = "old"

\* C17: when --client-dir names a pre-downloaded client, run calls neither
\* download_client nor ensure_scout_tarball and builds the bootstrap archive
\* from that directory.
C17_ClientDirSkipsDownloads ==
  (RunEnded /\ args.client_dir # None) =>
    /\ ~Called("download_client")
    /\ ~Called("ensure_scout_tarball")
    /\ Called("build_bootstrap") => built_from = args.client_dir

\* the place of a stage in the pipeline
StageIndex(name) == CHOOSE i \in DOMAIN STAGES : STAGES[i] = name

\* C23: in every run the stages are started in the pipeline's order, each at
\* most once; a stage is started only when every stage started before it
\* has ended successfully, so none is retried and none follows a failed
\* one; and client-versions.json is written to only in runs whose
\* repackaged archive was completed.
C23_StagesRunOnceInOrder ==
  run_pc # "idle" =>
    /\ \A i, j \in DOMAIN stages :
         i < j => StageIndex(stages[i].stage) < StageIndex(stages[j].stage)
    /\ \A i \in DOMAIN stages : i < Len(stages) => stages[i].ended = "ok"
    /\ dest_metadata # "old" =>
         /\ dest_archive = "new"
         /\ \E i \in DOMAIN stages : stages[i] = Stage("repackage", "ok")
    /\ run_pc = "returned" =>
         /\ \A i \in DOMAIN stages : stages[i].ended = "ok"
         /\ stages[Len(stages)].stage = "emit metadata"
    /\ run_pc = "raised" => stages[Len(stages)].ended = "failed"

\* C23 witness: a run from the manifest in which five stages ended
\* successfully and the repackaging failed: it has ended, and there is no
\* new client-versions.json
C23_Witness ==
  /\ RunEnded
  /\ Len(stages) = 5
  /\ stages[1].stage = "resolve manifest"
  /\ stages[5] = Stage("repackage", "failed")
  /\ dest_metadata = "old"

\* the text of VERSION.txt as ensure_scout_tarball takes it
Token == strip(version_txt)

\* C22: when ensure_scout_tarball is called with a non-empty
\* --runtime-version and the text of VERSION.txt, stripped of white space,
\* is empty, does not start with a digit or holds a character other than a
\* digit or '.', the run aborts in that call with no runtime tarball removed
\* or downloaded, and the text is never written as runtime_version.
C22_MalformedTokenAborts ==
  (/\ Called("ensure_scout_tarball")
   /\ args.runtime_version # <<>>
   /\ ~ IsPinnedVersion(Token))
  => /\ run_pc = "raised"
     /\ ~ Called("build_bootstrap")
     /\ tarball_ops = <<>>
     /\ metadata # <<Token>>

(***************************************************************************)
(* The network fetch operations: Main.fetch, verbose_urlopen,              *)
(* RuntimeArchive.open, pin_version and fetch                              *)
(***************************************************************************)

\* The server either answers ("ok"), or the request fails when it is
\* opened ("refused": urllib raises URLError), or the connection breaks
\* while the response is read ("reset": read raises ConnectionResetError).

NetOps ==
  {"Main.fetch", "verbose_urlopen", "RuntimeArchive.open",
   "RuntimeArchive.pin_version", "RuntimeArchive.fetch"}

Outcome(result, n, log, file) ==
  [result |-> result, requests |-> n, logged |-> log, file |-> file]

\* Main.fetch
main_fetch(srv) ==
  IF srv = "refused" THEN Outcome("URLError", 1, 0, "absent")
  ELSE IF srv = "reset" THEN Outcome("ConnectionResetError", 1, 0, "partial")
  ELSE Outcome("returned", 1, 0, "complete")

\* verbose_urlopen
verbose_urlopen(srv) ==
  IF srv = "refused" THEN Outcome("URLError", 1, 1, "absent")
  ELSE Outcome("returned", 1, 0, "absent")

\* RuntimeArchive.open
archive_open(srv, level) ==
  IF srv = "refused"
  THEN Outcome("URLError", 1, IF level # "NOTSET" THEN 1 ELSE 0, "absent")
  ELSE Outcome("returned", 1, 0, "absent")

\* RuntimeArchive.pin_version: open, then read
archive_pin_version(srv, level) ==
  LET opened == archive_open(srv, level)
  IN IF opened.result # "returned" THEN opened
     ELSE IF srv = "reset" THEN Outcome("ConnectionResetError", 1, 0, "absent")
     ELSE opened

\* RuntimeArchive.fetch whose handler never raises again
archive_fetch_never_raises(srv, exists, rsync, level) ==
  IF exists /\ rsync
  THEN Outcome(IF srv = "ok" THEN "returned" ELSE "CalledProcessError", 1, 0,
               IF srv = "ok" THEN "complete" ELSE IF srv = "reset" THEN "partial" ELSE "absent")
  ELSE LET lvl == IF level = "None" THEN (IF exists THEN "ERROR" ELSE "INFO") ELSE level
           opened == archive_open(srv, lvl)
       IN IF opened.result = "URLError"
          THEN Outcome("returned", opened.requests, opened.logged, "absent")
          ELSE IF srv = "reset"
               THEN Outcome("ConnectionResetError", 1, 0, "partial")
               ELSE Outcome("returned", 1, 0, "complete")

\* RuntimeArchive.fetch
archive_fetch(srv, exists, rsync, level) ==
  IF exists /\ rsync
  THEN Outcome(IF srv = "ok" THEN "returned" ELSE "CalledProcessError", 1, 0,
               IF srv = "ok" THEN "complete" ELSE IF srv = "reset" THEN "partial" ELSE "absent")
  ELSE LET lvl == IF level = "None" THEN (IF exists THEN "ERROR" ELSE "INFO") ELSE level
           opened == archive_open(srv, lvl)
       IN IF opened.result = "URLError"
          THEN IF exists THEN opened
               ELSE Outcome("returned", opened.requests, opened.logged, "absent")
          ELSE IF srv = "reset"
               THEN Outcome("ConnectionResetError", 1, 0, "partial")
               ELSE Outcome("returned", 1, 0, "complete")

NetInit ==
  /\ net_op \in NetOps
  /\ server \in {"ok", "refused", "reset"}
  /\ must_exist \in BOOLEAN
  /\ use_rsync \in BOOLEAN
  /\ log_level \in {"None", "NOTSET", "ERROR"}
  /\ requests = 0
  /\ logged = 0
  /\ net_file = "absent"
  /\ net_result = "pending"
  /\ WantIdle
  /\ ExtractIdle
  /\ FetchIdle
  /\ RepackIdle
  /\ PinIdle
  /\ CompareIdle
  /\ ScoutIdle
  /\ RunIdle
  /\ ManifestIdle
  /\ InstallIdle

NetDo(op, outcome) ==
  /\ net_result = "pending"
  /\ net_op = op
  /\ net_result' = outcome.result
  /\ requests' = requests + outcome.requests
  /\ logged' = logged + outcome.logged
  /\ net_file' = outcome.file
  /\ UNCHANGED <<net_op, server, must_exist, use_rsync, log_level>>
  /\ UNCHANGED notNet

CallMainFetch == NetDo("Main.fetch", main_fetch(server))
CallVerboseUrlopen == NetDo("verbose_urlopen", verbose_urlopen(server))
CallArchiveOpen == NetDo("RuntimeArchive.open", archive_open(server, log_level))
CallPinVersion == NetDo("RuntimeArchive.pin_version", archive_pin_version(server, log_level))
CallArchiveFetch ==
  NetDo("RuntimeArchive.fetch", archive_fetch(server, must_exist, use_rsync, log_level))

NetNext ==
  \/ CallMainFetch
  \/ CallVerboseUrlopen
  \/ CallArchiveOpen
  \/ CallPinVersion
  \/ CallArchiveFetch

SpecNet == NetInit /\ [][NetNext]_vars

\* the operation met a transport failure: its request was refused, or the
\* connection broke while it read the response
MetTransportFailure ==
  /\ net_result \notin {"idle", "pending"}
  /\ \/ server = "refused"
     \/ /\ server = "reset"
        /\ net_op \in {"Main.fetch", "RuntimeArchive.pin_version", "RuntimeArchive.fetch"}

\* RuntimeArchive.fetch was told the file need not exist and its request
\* was refused
OptionalFileRefused ==
  /\ net_op = "RuntimeArchive.fetch"
  /\ ~must_exist
  /\ server = "refused"

\* C15: every network fetch operation (RuntimeArchive.fetch with any value
\* of must_exist among them) that meets a transport failure issues the
\* request once, never again, and passes the error to its caller: none
\* returns normally.
C15_TransportFailureAlwaysPropagates ==
  MetTransportFailure => requests = 1 /\ net_result # "returned"

\* C15 as amended: every network fetch operation that meets a transport
\* failure issues the request once and passes the error to its caller,
\* except RuntimeArchive.fetch with must_exist false whose request is
\* refused: it issues the request once, leaves no output file and returns.
C15_TransportFailurePropagatesUnlessOptional ==
  MetTransportFailure =>
    /\ requests = 1
    /\ IF OptionalFileRefused
       THEN net_result = "returned" /\ net_file = "absent"
       ELSE net_result # "returned"

\* RuntimeArchive.fetch with must_exist true met a refused request over
\* http and raised URLError
C15_Witness ==
  /\ MetTransportFailure
  /\ net_op = "RuntimeArchive.fetch"
  /\ must_exist
  /\ ~use_rsync
  /\ server = "refused"
  /\ net_result = "URLError"

(***************************************************************************)
(* SteamClient.load_manifest, from the 'version' field on                  *)
(***************************************************************************)

MaxFieldLen == 3

\* the version fields tried: every short string of these characters, the
\* two examples of the documentation, and the last second of the year 9999
\* with the second after it
FieldAlphabet == {"0", "1", "a", "-", "_", " "}

VersionFields ==
  UNION { [1 .. n -> FieldAlphabet] : n \in 0 .. MaxFieldLen }
  \cup { <<"1", "6", "1", "0", "0", "0", "0", "0", "0", "0">>,
         <<"a", "b", "c", "x", "y", "z">>,
         <<"2", "5", "3", "4", "0", "2", "3", "0", "0", "7", "9", "9">>,
         <<"2", "5", "3", "4", "0", "2", "3", "0", "0", "8", "0", "0">> }

\* the digits of an int() literal, or the ValueError int() raises: white
\* space around it is dropped, one sign may lead, and single underscores
\* may stand between digits
int_literal(text) ==
  LET t == strip(text)
      signed == t # <<>> /\ Head(t) \in {"+", "-"}
      u == IF signed THEN Tail(t) ELSE t
  IN IF /\ u # <<>>
        /\ \A i \in 1 .. Len(u) : isdigit(u[i]) \/ u[i] = "_"
        /\ isdigit(u[1])
        /\ isdigit(u[Len(u)])
        /\ \A i \in 1 .. Len(u) - 1 : ~(u[i] = "_" /\ u[i + 1] = "_")
     THEN [raised |-> "",
           negative |-> (signed /\ Head(t) = "-"),
           digits |-> SelectSeq(u, isdigit)]
     ELSE [raised |-> "ValueError"]

\* a string of digits without its leading zeros
RECURSIVE without_leading_zeros(_)
without_leading_zeros(d) ==
  IF d # <<>> /\ Head(d) = "0" THEN without_leading_zeros(Tail(d)) ELSE d

\* a <= b for two strings of digits without leading zeros
digits_le(a, b) ==
  \/ Len(a) < Len(b)
  \/ Len(a) = Len(b) /\ ~str_lt(b, a)

\* datetime.datetime.fromtimestamp(timestamp, datetime.timezone.utc): the
\* years 1 to 9999 have a datetime, written here as 'utc:' and the seconds;
\* any other timestamp raises
fromtimestamp(literal) ==
  LET d == without_leading_zeros(literal.digits)
      negative == literal.negative /\ d # <<>>
      in_range ==
        IF negative
        THEN digits_le(d, <<"6", "2", "1", "3", "5", "5", "9", "6", "8", "0", "0">>)
        ELSE digits_le(d, <<"2", "5", "3", "4", "0", "2", "3", "0", "0", "7", "9", "9">>)
  IN IF in_range
     THEN [raised |-> "",
           datetime |-> <<"u", "t", "c", ":">> \o (IF negative THEN <<"-">> ELSE <<>>) \o d]
     ELSE [raised |-> "ValueError"]

ManifestInit ==
  /\ version_field \in VersionFields
  /\ client_version = None
  /\ client_datetime = None
  /\ manifest_status = "loading"
  /\ WantIdle
  /\ ExtractIdle
  /\ FetchIdle
  /\ RepackIdle
  /\ PinIdle
  /\ CompareIdle
  /\ ScoutIdle
  /\ RunIdle
  /\ NetIdle
  /\ InstallIdle

\* load_manifest from `self.version = str(...)` to its end
LoadManifest ==
  /\ manifest_status = "loading"
  /\ client_version' = version_field
  /\ LET timestamp == int_literal(version_field)
     IN IF timestamp.raised = "ValueError"
        THEN /\ client_datetime' = None
             /\ manifest_status' = "returned"
        ELSE LET dt == fromtimestamp(timestamp)
             IN IF dt.raised # ""
                THEN /\ manifest_status' = dt.raised
                     /\ UNCHANGED client_datetime
                ELSE /\ client_datetime' = dt.datetime
                     /\ manifest_status' = "returned"
  /\ UNCHANGED version_field
  /\ UNCHANGED notManifest

ManifestNext == LoadManifest

SpecManifest == ManifestInit /\ [][ManifestNext]_vars

\* C16: for a manifest with the 'ubuntu12' section and its 'version' field,
\* load_manifest sets version to the string of the field and never fails
\* because of what the field holds: datetime is the UTC timestamp of the
\* value exactly when the string parses as a base-10 integer, and None
\* otherwise.
C16_VersionFieldNeverFails ==
  manifest_status # "loading" =>
    /\ manifest_status = "returned"
    /\ client_version = version_field
    /\ (client_datetime # None) <=> (int_literal(version_field).raised = "")

(***************************************************************************)
(* Main.install_search and Main.install, as build_bootstrap calls them     *)
(***************************************************************************)

\* the directories: the one --client-overlay names, tmpdir/client, and the
\* current directory, against which an empty directory name resolves
OVERLAY_DIR == "overlay"
CLIENT_DIR == "tmpdir/client"
CWD == ""

\* the calls of install_search in build_bootstrap, in order
INSTALLED_FILES ==
  << [rel |-> "linux32/steamerrorreporter", executable |-> TRUE],
     [rel |-> "steam.sh", executable |-> TRUE],
     [rel |-> "steamdeps.txt", executable |-> FALSE],
     [rel |-> "ubuntu12_32/steam", executable |-> TRUE],
     [rel |-> "ubuntu12_32/crashhandler.so", executable |-> TRUE],
     [rel |-> "clientui/fonts/GoNotoKurrent-Bold.ttf", executable |-> FALSE],
     [rel |-> "clientui/fonts/GoNotoKurrent-Regular.ttf", executable |-> FALSE] >>

\* os.path.exists(os.path.join(d, rel)): os.path.join('', rel) is rel,
\* which resolves against the current directory
path_exists(d, seen) ==
  IF d = OVERLAY_DIR THEN seen.overlay
  ELSE IF d = CLIENT_DIR THEN seen.client
  ELSE seen.cwd

\* install_search without the test `if not d: continue`
RECURSIVE install_search_empty_not_skipped(_, _)
install_search_empty_not_skipped(dirs, seen) ==
  IF dirs = <<>> THEN [raised |-> "RuntimeError"]
  ELSE IF path_exists(Head(dirs), seen) THEN [raised |-> "", src |-> Head(dirs)]
  ELSE install_search_empty_not_skipped(Tail(dirs), seen)

\* Main.install_search: the directory the file is installed from, or the
\* exception raised
RECURSIVE install_search(_, _)
install_search(dirs, seen) ==
  IF dirs = <<>> THEN [raised |-> "RuntimeError"]
  ELSE IF Head(dirs) = "" THEN install_search(Tail(dirs), seen)
  ELSE IF path_exists(Head(dirs), seen) THEN [raised |-> "", src |-> Head(dirs)]
  ELSE install_search(Tail(dirs), seen)

\* Main.install: the file as installed
install(src, executable) ==
  [from |-> src, mode |-> IF executable THEN "755" ELSE "644"]

InstallInit ==
  /\ client_overlay \in {"", OVERLAY_DIR}
  /\ install_pos = 0
  /\ last_seen = [overlay |-> FALSE, client |-> FALSE, cwd |-> FALSE]
  /\ bootstrap = <<>>
  /\ install_status = "installing"
  /\ WantIdle
  /\ ExtractIdle
  /\ FetchIdle
  /\ RepackIdle
  /\ PinIdle
  /\ CompareIdle
  /\ ScoutIdle
  /\ RunIdle
  /\ NetIdle
  /\ ManifestIdle

\* one call self.install_search((self.client_overlay, client_dir), rel, ...)
InstallSearch(seen) ==
  /\ install_status = "installing"
  /\ install_pos < Len(INSTALLED_FILES)
  /\ client_overlay = "" => ~seen.overlay
  /\ LET file == INSTALLED_FILES[install_pos + 1]
         found == install_search(<<client_overlay, CLIENT_DIR>>, seen)
     IN IF found.raised # ""
        THEN /\ install_status' = found.raised
             /\ UNCHANGED bootstrap
        ELSE /\ bootstrap' = [p \in DOMAIN bootstrap \cup {file.rel} |->
                               IF p = file.rel THEN install(found.src, file.executable)
                               ELSE bootstrap[p]]
             /\ install_status' =
                  IF install_pos + 1 = Len(INSTALLED_FILES) THEN "installed" ELSE "installing"
  /\ install_pos' = install_pos + 1
  /\ last_seen' = seen
  /\ UNCHANGED client_overlay
  /\ UNCHANGED notInstall

InstallNext ==
  \E seen \in [overlay : BOOLEAN, client : BOOLEAN, cwd : BOOLEAN] : InstallSearch(seen)

SpecInstall == InstallInit /\ [][InstallNext]_vars

LastRel == INSTALLED_FILES[install_pos].rel

\* C18: for every file build_bootstrap installs through install_search the
\* overlay comes first: if --client-overlay is not empty and holds the
\* path, the overlay's copy is installed; otherwise the client's copy; an
\* empty overlay is skipped and never resolved against the current
\* directory; if neither holds the path, RuntimeError is raised and nothing
\* is installed for it.
C18_OverlayTakesPrecedence ==
  /\ \A p \in DOMAIN bootstrap : bootstrap[p].from \in {OVERLAY_DIR, CLIENT_DIR}
  /\ install_pos > 0 =>
       IF client_overlay # "" /\ last_seen.overlay
       THEN /\ install_status \in {"installing", "installed"}
            /\ bootstrap[LastRel].from = client_overlay
       ELSE IF last_seen.client
       THEN /\ install_status \in {"installing", "installed"}
            /\ bootstrap[LastRel].from = CLIENT_DIR
       ELSE /\ install_status = "RuntimeError"
            /\ LastRel \notin DOMAIN bootstrap

\* with an empty overlay, a file that exists in the current directory and
\* in the client was installed from the client
C18_Witness ==
  /\ install_pos > 0
  /\ client_overlay = ""
  /\ last_seen.cwd
  /\ last_seen.client
  /\ LastRel \in DOMAIN bootstrap
  /\ bootstrap[LastRel].from = CLIENT_DIR

(***************************************************************************)
(* Properties of want_file_from_runtime as a whole                         *)
(***************************************************************************)

WantAnswered == want_result \notin {"none", "idle"}

\* C19: want_file_from_runtime is total: for every list of path segments
\* it returns a boolean and never raises, the empty list that build_bootstrap
\* passes for the entry 'steam-runtime' and the list ['usr'] among them.
C19_PredicateIsTotal ==
  WantAnswered => want_result \in {"True", "False"}

\* the path without one leading 'usr'
WithoutUsr == IF path_parts # <<>> /\ path_parts[1] = USR THEN Tail(path_parts) ELSE path_parts

\* the name begins with 'libelf-' and ends with '.so'
MatchesLibelfGlob(name) ==
  /\ Len(name) >= 10
  /\ startswith(name, <<"l", "i", "b", "e", "l", "f", "-">>)
  /\ endswith(name, <<".", "s", "o">>)

\* (a) a metadata or script entry: the first segment is a name of the list
IsMetadataEntry == path_parts # <<>> /\ path_parts[1] \in Elems(METADATA_NAMES)

\* (b) a file directly inside a library directory of one architecture
\* whose name follows the soname rule, or for amd64 the glob
IsListedLibrary ==
  /\ WithoutUsr # <<>>
  /\ LET dir == AllButLast(WithoutUsr)
         name == WithoutUsr[Len(WithoutUsr)]
     IN \/ /\ dir \in { <<LIB, I386_LINUX_GNU>>,
                        <<LIB, I386_LINUX_GNU, STEAM_RUNTIME_TOOLS_0>> }
           /\ IsSonameOrVersioned(name, BOOTSTRAP_RUNTIME_I386_SONAMES)
        \/ /\ dir \in { <<LIB, X86_64_LINUX_GNU>>,
                        <<LIB, X86_64_LINUX_GNU, STEAM_RUNTIME_TOOLS_0>> }
           /\ \/ IsSonameOrVersioned(name, BOOTSTRAP_RUNTIME_AMD64_SONAMES)
              \/ MatchesLibelfGlob(name)

\* (c) a helper directly inside amd64/usr/bin or
\* libexec/steam-runtime-tools-0 whose name is in that directory's list
IsListedHelper ==
  /\ WithoutUsr # <<>>
  /\ LET dir == AllButLast(WithoutUsr)
         name == WithoutUsr[Len(WithoutUsr)]
     IN \/ dir = <<AMD64, USR, BIN>> /\ name \in Elems(BOOTSTRAP_RUNTIME_AMD64_BIN)
        \/ /\ dir = <<LIBEXEC, STEAM_RUNTIME_TOOLS_0>>
           /\ name \in Elems(BOOTSTRAP_RUNTIME_LIBEXEC_SRT)

\* (d) one of the four amd64 directories, the entry itself
IsAmd64Dependency ==
  WithoutUsr \in { <<AMD64, LIB>>, <<AMD64, USR, LIB>>,
                   <<AMD64, USR, LIBEXEC>>, <<AMD64, USR, SHARE>> }

\* C20: want_file_from_runtime returns true only for paths of three
\* categories: (a) a metadata or script entry of the fixed list, (b) a file
\* directly inside a per-architecture library directory whose name equals a
\* listed soname, starts with one and a '.', or (amd64) matches a listed
\* glob, (c) a helper directly inside amd64/usr/bin or
\* libexec/steam-runtime-tools-0 whose name is in that list; every other
\* path is rejected.
C20_OnlyThreeCategories ==
  (WantAnswered /\ want_result = "True") =>
    IsMetadataEntry \/ IsListedLibrary \/ IsListedHelper

\* C20 as amended: want_file_from_runtime returns true only for paths of
\* four categories: (a), (b) and (c) as above, taken after one leading
\* 'usr' segment is dropped for (b) and (c), and (d) the path that is
\* exactly amd64/lib, amd64/usr/lib, amd64/usr/libexec or amd64/usr/share.
C20_OnlyFourCategories ==
  (WantAnswered /\ want_result = "True") =>
    IsMetadataEntry \/ IsListedLibrary \/ IsListedHelper \/ IsAmd64Dependency

\* amd64/usr/share was accepted, and it is in none of (a), (b), (c)
C20_Witness ==
  /\ want_result = "True"
  /\ path_parts = <<AMD64, USR, SHARE>>
  /\ ~(IsMetadataEntry \/ IsListedLibrary \/ IsListedHelper)

(***************************************************************************)
(* The temporary directories of Main.run, SteamClient.download_client and  *)
(* SteamClient.download_runtime                                            *)
(***************************************************************************)

ScratchInit == FetchInit \/ RunInit

ScratchNext == FetchNext \/ RunNext

SpecScratch == ScratchInit /\ [][ScratchNext]_vars

\* C24: the temporary directory of download_client or download_runtime is
\* gone once the method has returned or raised; the temporary directory of
\* Main.run is gone once run has returned or raised, and already when
\* client-versions.json is about to be written or has been written to.
C24_TemporaryDirectoriesAreRemoved ==
  /\ (fetch_status \in {"ValueError", "URLError"} \/ fetch_result # "pending")
       => ~ tempdir.exists /\ tempdir.files = {}
  /\ (run_pc \in {"write_metadata", "returned", "raised"} \/ dest_metadata # "old")
       => ~ tmpdir.exists /\ tmpdir.files = {}

\* C24 witness: a run whose repackaging failed after the client was
\* downloaded and the bootstrap tree staged in the temporary directory
C24_Witness ==
  /\ run_pc = "raised"
  /\ raised = "OSError"
  /\ dest_archive = "partial"
  /\ Called("download_client")
  /\ ~ tmpdir.exists

(***************************************************************************)
(* Any one component                                                       *)
(***************************************************************************)
Init == WantInit \/ ExtractInit \/ FetchInit \/ RepackInit \/ PinInit \/ CompareInit \/ ScoutInit \/ RunInit \/ NetInit \/ ManifestInit \/ InstallInit

Next == WantNext \/ ExtractNext \/ FetchNext \/ RepackNext \/ PinNext \/ CompareNext \/ ScoutNext \/ RunNext \/ NetNext \/ ManifestNext \/ InstallNext

Spec == Init /\ [][Next]_vars

====
